---- MODULE Spec2Model ----
(***************************************************************************)
(* Verification model of warp: the rendezvous ClientStore (warp-map),      *)
(* the AEAD wire codec (warp-protocol) and the outbound fan-out of the     *)
(* warp core (warp).                                                       *)
(***************************************************************************)
EXTENDS Integers, Sequences, FiniteSets, TLC

\* ------------------------------------------------------------------------
\* Bounds of the ClientStore model
\* ------------------------------------------------------------------------
NumPubkeys == 2
NumAddresses == 2
MaxTime == 2
MaxExpiry == 1

\* Bounds of the codec model
NumCiphers == 2
NumRandom == 2
MaxStack == 2
\* Longest backlog of a gate's inbound channel that is followed.
MaxInbound == 2
\* Number of datagrams each gate takes from its application.
MaxDatagrams == 2
\* Number of NetworkInterface objects the scan task creates in a run.
MaxInstances == 2
\* Highest value of consecutive_failures that is followed.
MaxFailures == 2
\* Longest backlog of an interface's sender queue that is followed when the interfaces
\* are followed one by one.
MaxQueue == 1

\* Configuration of the warp core
max_consecutive_failures == 1
send_deadline == 1

Pubkeys == 1..NumPubkeys
Addresses == 1..NumAddresses
Instants == 0..MaxTime

VARIABLES
    client_expiry,          \* ClientStore.client_expiry
    pubkey_to_addresses,    \* ClientStore.pubkey_to_addresses: pubkey -> set of addresses
    address_to_pubkey,      \* ClientStore.address_to_pubkey:   address -> pubkey
    address_last_seen,      \* ClientStore.address_last_seen:   address -> Instant
    op,                     \* the ClientStore call that has just run: name, arguments, locals,
                            \* return value; NoCall once the caller has dropped the result
    \* one datagram through the wire codec
    rng,                    \* the sender's random generator: the number of its next draw
    tx_cipher,              \* the cipher the sender encrypts with
    rx_cipher,              \* the cipher the receiver decrypts with
    tx_messages,            \* the messages encoded into the datagram, in order
    tx_wire,                \* their WireMessages, as encrypt returned them
    datagram,               \* the bytes of the datagram assembled so far
    remaining_buf,          \* receiver: the unparsed rest of the datagram
    rx_index,               \* receiver: number of WireMessages parsed so far
    rx_wire,                \* receiver: the WireMessage from_slice returned last
    rx_decrypted,           \* receiver: the result of decrypt on rx_wire
    rx_type,                \* receiver: the message type the last decode asked for
    rx_decoded,             \* receiver: the result of that decode
    codec_pc,               \* position of the sender / receiver loop
    \* the outbound data path of the warp core
    interfaces,             \* RoutingState.interfaces_watch: the published interface list
    consecutive_failures,   \* NetworkInterface.consecutive_failures, per interface
    send_queue,             \* the sender queue of each interface: TxPayloads not yet dequeued
    peer_addresses,         \* RoutingState.peer_addresses_watch
    address_overrides,      \* RoutingState.address_overrides_watch: (interface name, address) -> address
    mapping_pc,             \* handle_mapping_response between its two updates: the endpoints to prune by
    rx,                     \* the channel from the interface receiver tasks to the rx processor
    tracer_generator,       \* the tracer counter of each gate's listener task
    outbound_tunnel_payloads, \* the channel from the gates to the accelerator
    acc_pc,                 \* position of the warp-accelerator task
    acc_outbound,           \* accelerator: the OutboundTunnelPayload being fanned out
    acc_data,               \* accelerator: its encrypted bytes
    acc_index,              \* accelerator: position in the interface list
    acc_log,                \* accelerator: the TUNNEL_PAYLOAD_SEND_QUEUED events of this payload
    \* the inbound data path of the warp core
    rx_task,                \* the global rx processor task: "running" or "panicked"
    external_address,       \* NetworkInterface.external_address_watch, per interface
    application_inbound_channel, \* Gate.application_inbound_channel, per tunnel
    application_socket,     \* per tunnel, the datagram the gate sent to the application last
    routing_call,           \* a resolve_peer_addresses call that has just run: argument and
                            \* result; NoResolve once the caller has dropped the result
    rx_current,             \* rx processor: the message it has parsed, decrypted and decoded
                            \* and is about to handle; NoMessage between two messages
    \* the NetworkInterface objects, followed one by one
    datalink,               \* pnet::datalink::interfaces(): per interface name "absent", "up" or
                            \* "unbindable" (enumerated, but create_socket fails)
    network_interfaces,     \* every NetworkInterface created so far, in the order of creation
    watch_interfaces,       \* the list the scan task keeps and publishes: positions in
                            \* network_interfaces
    watch_version,          \* the version of the watch channel of the list, modulo 2
    sender_event,           \* the tracing event a sender task emitted last, and its time
    \* the receive loop of the rendezvous server
    server_tasks,           \* the tasks spawned for the datagrams received so far, in order of
                            \* arrival: source, unparsed rest, responses so far, position
    \* WarpCore::run
    run_pc,                 \* "select", "shutdown" once the signal is taken, then "returned"
    \* a caller inside RoutingState::resolve_peer_addresses
    reader_guard,           \* the Ref of peer_addresses_watch.borrow() the caller holds, with
                            \* the list it reads through it
    \* the loopback socket of each gate
    fixed_destination,      \* ApplicationSocket::Loopback.fixed_destination, per tunnel
    current_destination,    \* the watch channel current_destination / destination_watch
    application_from,       \* the source address socket.recv_from returned last, per tunnel
    application_destination, \* the address of the last send_to that succeeded, per tunnel
    \* the rendezvous server and its clock
    server_clock,           \* Instant::now() of the server process
    last_register           \* per address, the pubkey and the time of the last register_client
                            \* call the server made for it (None: no such call yet)

storeVars == <<client_expiry, pubkey_to_addresses, address_to_pubkey, address_last_seen, op>>

codecVars == <<rng, tx_cipher, rx_cipher, tx_messages, tx_wire, datagram, remaining_buf, rx_index,
               rx_wire, rx_decrypted, rx_type, rx_decoded, codec_pc>>

routingVars == <<interfaces, consecutive_failures, send_queue, peer_addresses, address_overrides,
                 mapping_pc, rx>>

accelVars == <<tracer_generator, outbound_tunnel_payloads, acc_pc, acc_outbound, acc_data,
               acc_index, acc_log>>

ingressVars == <<rx_task, external_address, application_inbound_channel, application_socket,
                 routing_call, rx_current>>

instanceVars == <<datalink, network_interfaces, watch_interfaces, watch_version, sender_event>>

serverVars == <<server_tasks>>

runVars == <<run_pc>>

readerVars == <<reader_guard>>

socketVars == <<fixed_destination, current_destination, application_from, application_destination>>

leaseVars == <<server_clock, last_register>>

\* ------------------------------------------------------------------------
\* Map helpers (HashMap / BTreeMap insert, remove) and iteration orders
\* ------------------------------------------------------------------------
MapPut(m, k, v) == [x \in (DOMAIN m) \cup {k} |-> IF x = k THEN v ELSE m[x]]

MapRemove(m, k) == [x \in (DOMAIN m) \ {k} |-> m[x]]

EmptyMap == [x \in {} |-> 0]

\* The orders in which a HashSet / HashMap with the elements / keys S can be iterated.
IterationOrders(S) ==
    {f \in [1..Cardinality(S) -> S] : \A i, j \in 1..Cardinality(S) : i # j => f[i] # f[j]}

\* Instant::duration_since: saturates to zero when `earlier` is later than `now`.
duration_since(now, earlier) == IF now >= earlier THEN now - earlier ELSE 0

\* The ClientStore as one value.
Store == [client_expiry |-> client_expiry,
          pubkey_to_addresses |-> pubkey_to_addresses,
          address_to_pubkey |-> address_to_pubkey,
          address_last_seen |-> address_last_seen]

\* ------------------------------------------------------------------------
\* ClientStore operations
\* ------------------------------------------------------------------------
ClientStore_new(expiry) ==
    [client_expiry |-> expiry,
     pubkey_to_addresses |-> EmptyMap,
     address_to_pubkey |-> EmptyMap,
     address_last_seen |-> EmptyMap]

\* Mutation: the emptied entry of the old pubkey is never deleted.
RemoveFromSet_KeepEmpty(pta, pubkey, address) ==
    IF pubkey \in DOMAIN pta
    THEN MapPut(pta, pubkey, pta[pubkey] \ {address})
    ELSE pta

\* Removes `address` from the set of `pubkey`, dropping the entry when it empties.
RemoveFromSet(pta, pubkey, address) ==
    IF pubkey \in DOMAIN pta
    THEN LET addresses == pta[pubkey] \ {address}
         IN IF addresses = {} THEN MapRemove(pta, pubkey) ELSE MapPut(pta, pubkey, addresses)
    ELSE pta

\* Mutation: the address is not removed from the old pubkey's set.
register_client_NoCleanup(self, pubkey, address, now) ==
    LET pta == self.pubkey_to_addresses
        inserted == MapPut(pta, pubkey, (IF pubkey \in DOMAIN pta THEN pta[pubkey] ELSE {}) \cup {address})
    IN [self EXCEPT !.pubkey_to_addresses = inserted,
                    !.address_to_pubkey = MapPut(@, address, pubkey),
                    !.address_last_seen = MapPut(@, address, now)]

\* Mutation: the old set is cleaned but its emptied entry stays.
register_client_KeepEmpty(self, pubkey, address, now) ==
    LET atp == self.address_to_pubkey
        pta == self.pubkey_to_addresses
        cleaned == IF address \in DOMAIN atp /\ atp[address] # pubkey
                   THEN RemoveFromSet_KeepEmpty(pta, atp[address], address)
                   ELSE pta
        inserted == MapPut(cleaned, pubkey,
                           (IF pubkey \in DOMAIN cleaned THEN cleaned[pubkey] ELSE {}) \cup {address})
    IN [self EXCEPT !.pubkey_to_addresses = inserted,
                    !.address_to_pubkey = MapPut(@, address, pubkey),
                    !.address_last_seen = MapPut(@, address, now)]

\* Mutation: the timestamp of an address that is already known is kept.
register_client_KeepFirstSeen(self, pubkey, address, now) ==
    LET atp == self.address_to_pubkey
        pta == self.pubkey_to_addresses
        cleaned == IF address \in DOMAIN atp /\ atp[address] # pubkey
                   THEN RemoveFromSet(pta, atp[address], address)
                   ELSE pta
        inserted == MapPut(cleaned, pubkey,
                           (IF pubkey \in DOMAIN cleaned THEN cleaned[pubkey] ELSE {}) \cup {address})
    IN [self EXCEPT !.pubkey_to_addresses = inserted,
                    !.address_to_pubkey = MapPut(@, address, pubkey),
                    !.address_last_seen = IF address \in DOMAIN @ THEN @ ELSE MapPut(@, address, now)]

register_client(self, pubkey, address, now) ==
    LET atp == self.address_to_pubkey
        pta == self.pubkey_to_addresses
        cleaned == IF address \in DOMAIN atp /\ atp[address] # pubkey
                   THEN RemoveFromSet(pta, atp[address], address)
                   ELSE pta
        inserted == MapPut(cleaned, pubkey,
                           (IF pubkey \in DOMAIN cleaned THEN cleaned[pubkey] ELSE {}) \cup {address})
    IN [self EXCEPT !.pubkey_to_addresses = inserted,
                    !.address_to_pubkey = MapPut(@, address, pubkey),
                    !.address_last_seen = MapPut(@, address, now)]

\* Whether deregister_client(pubkey, address) removes something (its return value).
deregister_removed(self, pubkey, address) ==
    /\ pubkey \in DOMAIN self.pubkey_to_addresses
    /\ address \in self.pubkey_to_addresses[pubkey]

\* Mutation: address_last_seen is not purged.
deregister_client_KeepLastSeen(self, pubkey, address) ==
    IF deregister_removed(self, pubkey, address)
    THEN [self EXCEPT !.pubkey_to_addresses = RemoveFromSet(@, pubkey, address),
                      !.address_to_pubkey = MapRemove(@, address)]
    ELSE self

\* Mutation: the reverse maps are purged whether or not the address was in pubkey's set.
deregister_client_AlwaysPurge(self, pubkey, address) ==
    IF deregister_removed(self, pubkey, address)
    THEN [self EXCEPT !.pubkey_to_addresses = RemoveFromSet(@, pubkey, address),
                      !.address_to_pubkey = MapRemove(@, address),
                      !.address_last_seen = MapRemove(@, address)]
    ELSE [self EXCEPT !.address_to_pubkey = MapRemove(@, address),
                      !.address_last_seen = MapRemove(@, address)]

deregister_client(self, pubkey, address) ==
    IF deregister_removed(self, pubkey, address)
    THEN [self EXCEPT !.pubkey_to_addresses = RemoveFromSet(@, pubkey, address),
                      !.address_to_pubkey = MapRemove(@, address),
                      !.address_last_seen = MapRemove(@, address)]
    ELSE self

\* Mutation: `<=` instead of `<` in the freshness filter.
get_addresses_Inclusive(self, pubkey, now, order) ==
    IF pubkey \in DOMAIN self.pubkey_to_addresses
    THEN LET Fresh(addr) ==
                 /\ addr \in self.pubkey_to_addresses[pubkey]
                 /\ addr \in DOMAIN self.address_last_seen
                 /\ duration_since(now, self.address_last_seen[addr]) <= self.client_expiry
         IN SelectSeq(order, Fresh)
    ELSE << >>

\* `order` is the iteration order of the pubkey's HashSet.
get_addresses(self, pubkey, now, order) ==
    IF pubkey \in DOMAIN self.pubkey_to_addresses
    THEN LET Fresh(addr) ==
                 /\ addr \in self.pubkey_to_addresses[pubkey]
                 /\ addr \in DOMAIN self.address_last_seen
                 /\ duration_since(now, self.address_last_seen[addr]) < self.client_expiry
         IN SelectSeq(order, Fresh)
    ELSE << >>

\* Option<PublicKey>: 0 stands for None.
get_pubkey(self, address) ==
    IF address \in DOMAIN self.address_to_pubkey THEN self.address_to_pubkey[address] ELSE 0

\* Mutation: `>` instead of `>=` in the eviction test.
gc_expired_Strict(self, now, addr) ==
    duration_since(now, self.address_last_seen[addr]) > self.client_expiry

gc_expired(self, now, addr) ==
    duration_since(now, self.address_last_seen[addr]) >= self.client_expiry

\* The body of the retain closure, applied to the entries of address_last_seen in
\* iteration order; acc carries the two other maps and the two counters.
RECURSIVE gc_visit(_, _, _, _, _)
gc_visit(self, now, order, i, acc) ==
    IF i > Len(order) THEN acc
    ELSE LET addr == order[i]
             visit == addr \in DOMAIN self.address_last_seen /\ gc_expired(self, now, addr)
             atp == acc.address_to_pubkey
             pta == acc.pubkey_to_addresses
             hasKey == addr \in DOMAIN atp
             pubkey == IF hasKey THEN atp[addr] ELSE 0
             hasSet == hasKey /\ pubkey \in DOMAIN pta
             emptied == hasSet /\ pta[pubkey] \ {addr} = {}
             next == IF ~visit THEN acc
                     ELSE [address_to_pubkey |-> MapRemove(atp, addr),
                           pubkey_to_addresses |-> IF hasSet THEN RemoveFromSet(pta, pubkey, addr) ELSE pta,
                           expired_addresses |-> acc.expired_addresses + 1,
                           expired_pubkeys |-> acc.expired_pubkeys + (IF emptied THEN 1 ELSE 0)]
         IN gc_visit(self, now, order, i + 1, next)

gc_result(self, now, order) ==
    gc_visit(self, now, order, 1,
             [address_to_pubkey |-> self.address_to_pubkey,
              pubkey_to_addresses |-> self.pubkey_to_addresses,
              expired_addresses |-> 0,
              expired_pubkeys |-> 0])

\* Mutation: the expired address is not removed from address_to_pubkey.
garbage_collect_KeepReverse(self, now, order) ==
    LET r == gc_result(self, now, order)
    IN [self EXCEPT !.pubkey_to_addresses = r.pubkey_to_addresses,
                    !.address_last_seen =
                        [a \in {x \in DOMAIN self.address_last_seen : ~gc_expired(self, now, x)}
                            |-> self.address_last_seen[a]]]

garbage_collect(self, now, order) ==
    LET r == gc_result(self, now, order)
    IN [self EXCEPT !.pubkey_to_addresses = r.pubkey_to_addresses,
                    !.address_to_pubkey = r.address_to_pubkey,
                    !.address_last_seen =
                        [a \in {x \in DOMAIN self.address_last_seen : ~gc_expired(self, now, x)}
                            |-> self.address_last_seen[a]]]

\* ------------------------------------------------------------------------
\* The ClientStore as a state machine: one action per public method, each of
\* them one call made by a caller that holds the lock of the store
\* ------------------------------------------------------------------------
NoCall == [name |-> "", pubkey |-> 0, address |-> 0, now |-> 0, old_pubkey |-> 0,
           removed |-> FALSE, addresses |-> << >>, expired_addresses |-> 0, expired_pubkeys |-> 0]

SetStore(s) ==
    /\ client_expiry' = s.client_expiry
    /\ pubkey_to_addresses' = s.pubkey_to_addresses
    /\ address_to_pubkey' = s.address_to_pubkey
    /\ address_last_seen' = s.address_last_seen

StoreInit ==
    /\ \E expiry \in 0..MaxExpiry :
          /\ client_expiry = ClientStore_new(expiry).client_expiry
          /\ pubkey_to_addresses = ClientStore_new(expiry).pubkey_to_addresses
          /\ address_to_pubkey = ClientStore_new(expiry).address_to_pubkey
          /\ address_last_seen = ClientStore_new(expiry).address_last_seen
    /\ op = NoCall

RegisterClient ==
    \E pubkey \in Pubkeys, address \in Addresses, now \in Instants :
        /\ op = NoCall
        /\ SetStore(register_client(Store, pubkey, address, now))
        /\ op' = [NoCall EXCEPT !.name = "register_client", !.pubkey = pubkey, !.address = address,
                                !.now = now, !.old_pubkey = get_pubkey(Store, address)]
        /\ UNCHANGED <<codecVars, routingVars, accelVars, ingressVars>>
        /\ UNCHANGED instanceVars
        /\ UNCHANGED <<serverVars, runVars, readerVars, socketVars, leaseVars>>

DeregisterClient ==
    \E pubkey \in Pubkeys, address \in Addresses :
        /\ op = NoCall
        /\ SetStore(deregister_client(Store, pubkey, address))
        /\ op' = [NoCall EXCEPT !.name = "deregister_client", !.pubkey = pubkey, !.address = address,
                                !.old_pubkey = get_pubkey(Store, address),
                                !.removed = deregister_removed(Store, pubkey, address)]
        /\ UNCHANGED <<codecVars, routingVars, accelVars, ingressVars>>
        /\ UNCHANGED instanceVars
        /\ UNCHANGED <<serverVars, runVars, readerVars, socketVars, leaseVars>>

GetAddresses ==
    \E pubkey \in Pubkeys, now \in Instants :
      \E order \in IterationOrders(IF pubkey \in DOMAIN pubkey_to_addresses
                                   THEN pubkey_to_addresses[pubkey] ELSE {}) :
        /\ op = NoCall
        /\ op' = [NoCall EXCEPT !.name = "get_addresses", !.pubkey = pubkey, !.now = now,
                                !.addresses = get_addresses(Store, pubkey, now, order)]
        /\ UNCHANGED <<client_expiry, pubkey_to_addresses, address_to_pubkey, address_last_seen>>
        /\ UNCHANGED <<codecVars, routingVars, accelVars, ingressVars>>
        /\ UNCHANGED instanceVars
        /\ UNCHANGED <<serverVars, runVars, readerVars, socketVars, leaseVars>>

GetPubkey ==
    \E address \in Addresses :
        /\ op = NoCall
        /\ op' = [NoCall EXCEPT !.name = "get_pubkey", !.address = address,
                                !.pubkey = get_pubkey(Store, address)]
        /\ UNCHANGED <<client_expiry, pubkey_to_addresses, address_to_pubkey, address_last_seen>>
        /\ UNCHANGED <<codecVars, routingVars, accelVars, ingressVars>>
        /\ UNCHANGED instanceVars
        /\ UNCHANGED <<serverVars, runVars, readerVars, socketVars, leaseVars>>

GarbageCollect ==
    \E now \in Instants, order \in IterationOrders(DOMAIN address_last_seen) :
        /\ op = NoCall
        /\ SetStore(garbage_collect(Store, now, order))
        /\ op' = [NoCall EXCEPT !.name = "garbage_collect", !.now = now,
                                !.expired_addresses = gc_result(Store, now, order).expired_addresses,
                                !.expired_pubkeys = gc_result(Store, now, order).expired_pubkeys]
        /\ UNCHANGED <<codecVars, routingVars, accelVars, ingressVars>>
        /\ UNCHANGED instanceVars
        /\ UNCHANGED <<serverVars, runVars, readerVars, socketVars, leaseVars>>

\* The method returns: the caller uses the result and releases the lock.
Return ==
    /\ op # NoCall
    /\ op' = NoCall
    /\ UNCHANGED <<client_expiry, pubkey_to_addresses, address_to_pubkey, address_last_seen>>
    /\ UNCHANGED <<codecVars, routingVars, accelVars, ingressVars>>
    /\ UNCHANGED instanceVars
    /\ UNCHANGED <<serverVars, runVars, readerVars, socketVars, leaseVars>>

\* ------------------------------------------------------------------------
\* Wire codec: bytes, bincode (standard configuration: varint, little endian)
\* ------------------------------------------------------------------------
NONCE_SIZE == 12
TAG_SIZE == 16

RECURSIVE to_le_bytes(_, _)
to_le_bytes(v, n) == IF n = 0 THEN << >> ELSE <<v % 256>> \o to_le_bytes(v \div 256, n - 1)

RECURSIVE from_le_bytes(_)
from_le_bytes(bytes) == IF bytes = << >> THEN 0 ELSE bytes[1] + 256 * from_le_bytes(Tail(bytes))

Take(buf, n) == SubSeq(buf, 1, n)

Drop(buf, n) == SubSeq(buf, n + 1, Len(buf))

\* A decode result: ok, the decoded value and the unread rest of the buffer.
Decoded(v, rest) == [ok |-> TRUE, value |-> v, rest |-> rest]

DecodeFailed == [ok |-> FALSE, value |-> 0, rest |-> << >>]

\* bincode varint encoding of an unsigned integer (values below 2^31 here).
EncodeVarint(v) ==
    IF v < 251 THEN <<v>>
    ELSE IF v < 65536 THEN <<251>> \o to_le_bytes(v, 2)
    ELSE <<252>> \o to_le_bytes(v, 4)

DecodeFixed(buf, n) ==
    IF Len(buf) < n THEN DecodeFailed ELSE Decoded(from_le_bytes(Take(buf, n)), Drop(buf, n))

DecodeVarint(buf) ==
    IF buf = << >> THEN DecodeFailed
    ELSE IF buf[1] < 251 THEN Decoded(buf[1], Tail(buf))
    ELSE IF buf[1] = 251 THEN DecodeFixed(Tail(buf), 2)
    ELSE IF buf[1] = 252 THEN DecodeFixed(Tail(buf), 4)
    ELSE IF buf[1] = 253 THEN DecodeFixed(Tail(buf), 8)
    ELSE DecodeFailed

\* Vec<u8> / String / serde bytes: varint length, then the bytes.
EncodeBytes(b) == EncodeVarint(Len(b)) \o b

\* Mutation: the length prefix is dropped.
EncodeBytes_NoLength(b) == b

DecodeBytes(buf) ==
    LET n == DecodeVarint(buf)
    IN IF ~n.ok \/ Len(n.rest) < n.value THEN DecodeFailed
       ELSE Decoded(Take(n.rest, n.value), Drop(n.rest, n.value))

\* [u8; n]: the bytes, no length prefix.
DecodeArray(buf, n) ==
    IF Len(buf) < n THEN DecodeFailed ELSE Decoded(Take(buf, n), Drop(buf, n))

\* ------------------------------------------------------------------------
\* Field values and their bincode encodings
\* ------------------------------------------------------------------------
\* PublicKey with serde: a byte string (the SEC1 point), abstracted to two bytes.
PublicKeyBytes(pubkey) == <<2, pubkey>>

EncodeSocketAddr(a) == <<0>> \o a.ip \o EncodeVarint(a.port)

DecodeSocketAddr(buf) ==
    LET variant == DecodeVarint(buf)
        ip == DecodeArray(variant.rest, 4)
        port == DecodeVarint(ip.rest)
    IN IF ~variant.ok \/ variant.value # 0 THEN DecodeFailed
       ELSE IF ~ip.ok THEN DecodeFailed
       ELSE IF ~port.ok \/ port.value >= 65536 THEN DecodeFailed
       ELSE Decoded([ip |-> ip.value, port |-> port.value], port.rest)

RECURSIVE EncodeSocketAddrs(_)
EncodeSocketAddrs(v) ==
    IF v = << >> THEN << >> ELSE EncodeSocketAddr(Head(v)) \o EncodeSocketAddrs(Tail(v))

RECURSIVE DecodeSocketAddrs(_, _)
DecodeSocketAddrs(n, buf) ==
    IF n = 0 THEN Decoded(<< >>, buf)
    ELSE LET first == DecodeSocketAddr(buf)
             others == DecodeSocketAddrs(n - 1, first.rest)
         IN IF ~first.ok THEN DecodeFailed
            ELSE IF ~others.ok THEN DecodeFailed
            ELSE Decoded(<<first.value>> \o others.value, others.rest)

TunnelIdName(name) == [variant |-> "Name", name |-> name, id |-> 0]

TunnelIdId(id) == [variant |-> "Id", name |-> << >>, id |-> id]

ReconstructionTag(variant, a, b, c) == [variant |-> variant, a |-> a, b |-> b, c |-> c]

Plain == ReconstructionTag("Plain", 0, 0, 0)

EncodeField(kind, v) ==
    CASE kind = "PublicKey" -> EncodeBytes(PublicKeyBytes(v))
      [] kind = "SystemTime" -> EncodeVarint(v.secs) \o EncodeVarint(v.nanos)
      [] kind = "SocketAddr" -> EncodeSocketAddr(v)
      [] kind = "VecSocketAddr" -> EncodeVarint(Len(v)) \o EncodeSocketAddrs(v)
      [] kind = "TunnelId" ->
            IF v.variant = "Name" THEN <<0>> \o EncodeBytes(v.name) ELSE <<1>> \o EncodeVarint(v.id)
      [] kind = "ReconstructionTag" ->
            IF v.variant = "Plain" THEN <<0>>
            ELSE IF v.variant = "Xor" THEN <<1>> \o EncodeVarint(v.a) \o EncodeVarint(v.b)
            ELSE <<2>> \o EncodeVarint(v.a) \o EncodeVarint(v.b) \o EncodeVarint(v.c)
      [] kind = "VecU8" -> EncodeBytes(v)

DecodeField(kind, buf) ==
    CASE kind = "PublicKey" ->
            LET b == DecodeBytes(buf)
            IN IF ~b.ok \/ Len(b.value) # 2 THEN DecodeFailed
               ELSE IF b.value[1] # 2 THEN DecodeFailed
               ELSE Decoded(b.value[2], b.rest)
      [] kind = "SystemTime" ->
            LET secs == DecodeVarint(buf)
                nanos == DecodeVarint(secs.rest)
            IN IF ~secs.ok THEN DecodeFailed
               ELSE IF ~nanos.ok THEN DecodeFailed
               ELSE Decoded([secs |-> secs.value, nanos |-> nanos.value], nanos.rest)
      [] kind = "SocketAddr" -> DecodeSocketAddr(buf)
      [] kind = "VecSocketAddr" ->
            LET n == DecodeVarint(buf)
            IN IF ~n.ok THEN DecodeFailed ELSE DecodeSocketAddrs(n.value, n.rest)
      [] kind = "TunnelId" ->
            LET variant == DecodeVarint(buf)
                name == DecodeBytes(variant.rest)
                id == DecodeVarint(variant.rest)
            IN IF ~variant.ok THEN DecodeFailed
               ELSE IF variant.value = 0
                    THEN (IF name.ok THEN Decoded(TunnelIdName(name.value), name.rest) ELSE DecodeFailed)
               ELSE IF variant.value = 1
                    THEN (IF id.ok THEN Decoded(TunnelIdId(id.value), id.rest) ELSE DecodeFailed)
               ELSE DecodeFailed
      [] kind = "ReconstructionTag" ->
            LET variant == DecodeVarint(buf)
                a == DecodeVarint(variant.rest)
                b == DecodeVarint(a.rest)
                c == DecodeVarint(b.rest)
            IN IF ~variant.ok THEN DecodeFailed
               ELSE IF variant.value = 0 THEN Decoded(Plain, variant.rest)
               ELSE IF variant.value = 1
                    THEN (IF a.ok /\ b.ok
                          THEN Decoded(ReconstructionTag("Xor", a.value, b.value, 0), b.rest)
                          ELSE DecodeFailed)
               ELSE IF variant.value = 2
                    THEN (IF a.ok /\ b.ok /\ c.ok
                          THEN Decoded(ReconstructionTag("Multipart", a.value, b.value, c.value), c.rest)
                          ELSE DecodeFailed)
               ELSE DecodeFailed
      [] kind = "VecU8" -> DecodeBytes(buf)

\* ------------------------------------------------------------------------
\* The message set and the field classification the derive macro generates
\* ------------------------------------------------------------------------
MessageTypes == {"RegisterRequest", "RegisterResponse", "DeregisterRequest", "DeregisterResponse",
                 "MappingRequest", "MappingResponse", "TunnelPayload", "PeerAddressOverride"}

MESSAGE_ID(T) ==
    CASE T = "RegisterRequest" -> 16
      [] T = "RegisterResponse" -> 17
      [] T = "MappingRequest" -> 18
      [] T = "MappingResponse" -> 19
      [] T = "DeregisterRequest" -> 20
      [] T = "DeregisterResponse" -> 21
      [] T = "TunnelPayload" -> 241
      [] T = "PeerAddressOverride" -> 242

\* #[Aead(associated_data)] fields, in declaration order.
public_fields(T) ==
    CASE T \in {"RegisterRequest", "DeregisterRequest"} -> <<"pubkey">>
      [] OTHER -> << >>

\* #[Aead(encrypted)] fields, in declaration order.
secret_fields(T) ==
    CASE T = "RegisterRequest" -> <<"timestamp">>
      [] T = "RegisterResponse" -> <<"address", "timestamp", "request_timestamp">>
      [] T = "DeregisterRequest" -> <<"timestamp">>
      [] T = "DeregisterResponse" -> <<"timestamp", "request_timestamp">>
      [] T = "MappingRequest" -> <<"peer_pubkey", "timestamp">>
      [] T = "MappingResponse" -> <<"peer_pubkey", "endpoints", "timestamp">>
      [] T = "TunnelPayload" -> <<"tunnel_id", "reconstruction_tag", "data">>
      [] T = "PeerAddressOverride" -> <<"replace">>

\* #[Aead(Nonce)] field; "" when the type has none.
nonce_field(T) == IF T = "TunnelPayload" THEN "tracer" ELSE ""

FieldKind(f) ==
    CASE f \in {"pubkey", "peer_pubkey"} -> "PublicKey"
      [] f \in {"timestamp", "request_timestamp"} -> "SystemTime"
      [] f \in {"address", "replace"} -> "SocketAddr"
      [] f = "endpoints" -> "VecSocketAddr"
      [] f = "tunnel_id" -> "TunnelId"
      [] f = "reconstruction_tag" -> "ReconstructionTag"
      [] f = "data" -> "VecU8"

Range(seq) == {seq[i] : i \in 1..Len(seq)}

\* bincode::encode_to_vec of the struct view holding `fields` of message m.
RECURSIVE EncodeStruct(_, _)
EncodeStruct(m, fields) ==
    IF fields = << >> THEN << >>
    ELSE EncodeField(FieldKind(Head(fields)), m[Head(fields)]) \o EncodeStruct(m, Tail(fields))

\* bincode::decode_from_slice of a struct view: field name -> value, and the rest.
RECURSIVE DecodeStruct(_, _)
DecodeStruct(fields, buf) ==
    IF fields = << >> THEN Decoded(EmptyMap, buf)
    ELSE LET first == DecodeField(FieldKind(Head(fields)), buf)
             others == DecodeStruct(Tail(fields), first.rest)
         IN IF ~first.ok THEN DecodeFailed
            ELSE IF ~others.ok THEN DecodeFailed
            ELSE Decoded(MapPut(others.value, Head(fields), first.value), others.rest)

public_bytes(m) == EncodeStruct(m, public_fields(m.type))

secret_bytes(m) == EncodeStruct(m, secret_fields(m.type))

\* Mutation: only the low byte of the nonce source is written.
nonce_source_bytes_LowByte(m) == to_le_bytes(m.tracer % 256, 8)

\* with_nonce_bytes: the little-endian bytes of the u64 nonce-source field.
nonce_source_bytes(m) == to_le_bytes(m.tracer, 8)

\* ------------------------------------------------------------------------
\* AEAD (ChaCha20-Poly1305), idealised: the ciphertext hides the plaintext
\* under a keystream of (key, nonce), and the tag binds key, nonce,
\* associated data and ciphertext body, so opening under another key fails.
\* ------------------------------------------------------------------------
RECURSIVE SumBytes(_)
SumBytes(b) == IF b = << >> THEN 0 ELSE (Head(b) + SumBytes(Tail(b))) % 256

KeyStream(key, nonce, i) == (key * 31 + SumBytes(nonce) + i) % 256

AeadTag(key, nonce, aad, body) ==
    [i \in 1..TAG_SIZE |->
        IF i = 1 THEN key
        ELSE IF i = 2 THEN SumBytes(nonce)
        ELSE IF i = 3 THEN SumBytes(aad)
        ELSE IF i = 4 THEN Len(aad) % 256
        ELSE IF i = 5 THEN SumBytes(body)
        ELSE 0]

Ok(v) == [ok |-> TRUE, value |-> v, err |-> ""]

Err(e) == [ok |-> FALSE, value |-> 0, err |-> e]

aead_encrypt(key, nonce, aad, msg) ==
    LET body == [i \in 1..Len(msg) |-> (msg[i] + KeyStream(key, nonce, i)) % 256]
    IN body \o AeadTag(key, nonce, aad, body)

aead_decrypt(key, nonce, aad, ciphertext) ==
    IF Len(ciphertext) < TAG_SIZE THEN Err("aead")
    ELSE LET body == Take(ciphertext, Len(ciphertext) - TAG_SIZE)
             tag == Drop(ciphertext, Len(ciphertext) - TAG_SIZE)
         IN IF tag # AeadTag(key, nonce, aad, body) THEN Err("aead")
            ELSE Ok([i \in 1..Len(body) |-> (body[i] + 256 - KeyStream(key, nonce, i)) % 256])

\* ------------------------------------------------------------------------
\* Message::encode, UnencryptedWireMessage::encrypt / decode,
\* WireMessage::to_bytes / from_slice / decrypt, and the generated from_parts
\* ------------------------------------------------------------------------
\* `random` is the output of Cipher::generate_nonce() drawn by this call.
encode(m, random) ==
    LET nonce_bytes == nonce_source_bytes(m)
        final_nonce == IF Len(nonce_bytes) >= NONCE_SIZE
                       THEN Take(nonce_bytes, NONCE_SIZE)
                       ELSE nonce_bytes \o Take(random, NONCE_SIZE - Len(nonce_bytes))
    IN [message_id |-> MESSAGE_ID(m.type),
        nonce |-> IF nonce_field(m.type) # "" THEN final_nonce ELSE random,
        public |-> public_bytes(m),
        secret |-> secret_bytes(m)]

\* Mutation: the message id is not appended to the plaintext.
encrypt_NoMessageId(u, cipher) ==
    [nonce |-> u.nonce,
     encrypted_message |-> aead_encrypt(cipher, u.nonce, u.public, u.secret),
     associated_data |-> u.public]

encrypt(u, cipher) ==
    LET to_be_encrypted == Append(u.secret, u.message_id)
    IN [nonce |-> u.nonce,
        encrypted_message |-> aead_encrypt(cipher, u.nonce, u.public, to_be_encrypted),
        associated_data |-> u.public]

\* Mutation: the encrypted message is written without its length prefix.
to_bytes_NoLength(w) ==
    w.nonce \o EncodeBytes_NoLength(w.encrypted_message) \o EncodeBytes(w.associated_data)

to_bytes(w) == w.nonce \o EncodeBytes(w.encrypted_message) \o EncodeBytes(w.associated_data)

\* Returns the parsed WireMessage and the remaining slice.
from_slice(slice) ==
    LET nonce == DecodeArray(slice, NONCE_SIZE)
        encrypted_message == DecodeBytes(nonce.rest)
        associated_data == DecodeBytes(encrypted_message.rest)
    IN IF ~nonce.ok THEN DecodeFailed
       ELSE IF ~encrypted_message.ok THEN DecodeFailed
       ELSE IF ~associated_data.ok THEN DecodeFailed
       ELSE Decoded([nonce |-> nonce.value,
                     encrypted_message |-> encrypted_message.value,
                     associated_data |-> associated_data.value],
                    associated_data.rest)

\* Mutation: an authentication failure is not reported; the bytes are used as they are.
decrypt_Unchecked(w, cipher) ==
    LET body == Take(w.encrypted_message, Len(w.encrypted_message) - TAG_SIZE)
        plaintext == [i \in 1..Len(body) |-> (body[i] + 256 - KeyStream(cipher, w.nonce, i)) % 256]
    IN IF Len(w.encrypted_message) <= TAG_SIZE THEN Err("InvalidMessageFormat")
       ELSE Ok([message_id |-> plaintext[Len(plaintext)],
                nonce |-> w.nonce,
                public |-> w.associated_data,
                secret |-> Take(plaintext, Len(plaintext) - 1)])

decrypt(w, cipher) ==
    LET plaintext == aead_decrypt(cipher, w.nonce, w.associated_data, w.encrypted_message)
    IN IF ~plaintext.ok THEN Err("Decryption")
       ELSE IF plaintext.value = << >> THEN Err("InvalidMessageFormat")
       ELSE Ok([message_id |-> plaintext.value[Len(plaintext.value)],
                nonce |-> w.nonce,
                public |-> w.associated_data,
                secret |-> Take(plaintext.value, Len(plaintext.value) - 1)])

\* The generated from_parts; a failing bincode decode is an unwrap() panic.
from_parts(T, nonce, public, secret) ==
    LET public_data == DecodeStruct(public_fields(T), public)
        secret_data == DecodeStruct(secret_fields(T), secret)
        names == {"type"} \cup Range(public_fields(T)) \cup Range(secret_fields(T))
                     \cup (IF nonce_field(T) # "" THEN {nonce_field(T)} ELSE {})
    IN IF ~public_data.ok \/ ~secret_data.ok THEN Err("panic")
       ELSE Ok([f \in names |->
                   IF f = "type" THEN T
                   ELSE IF f \in Range(public_fields(T)) THEN public_data.value[f]
                   ELSE IF f \in Range(secret_fields(T)) THEN secret_data.value[f]
                   ELSE from_le_bytes(Take(nonce, 8))])

decode(u, T) ==
    IF u.message_id # MESSAGE_ID(T) THEN Err("UnexpectedMessageId")
    ELSE from_parts(T, u.nonce, u.public, u.secret)

\* ------------------------------------------------------------------------
\* One datagram through the codec: the sender stacks up to MaxStack messages
\* (encode, encrypt, to_bytes, append), the receiver runs the parse loop of
\* the rx processors (from_slice, decrypt, decode, continue with the rest).
\* ------------------------------------------------------------------------
Ciphers == 1..NumCiphers

\* Cipher::generate_nonce(): the r-th draw of the random generator.
RandomNonce(r) == [i \in 1..NONCE_SIZE |-> (r * 37 + i * 11) % 256]

SystemTime(secs, nanos) == [secs |-> secs, nanos |-> nanos]

SocketAddrV4(a, b, c, d, port) == [ip |-> <<a, b, c, d>>, port |-> port]

SampleMessages ==
    { [type |-> "RegisterRequest", pubkey |-> 1, timestamp |-> SystemTime(1700, 5)],
      [type |-> "RegisterResponse", address |-> SocketAddrV4(127, 0, 0, 1, 8080),
       timestamp |-> SystemTime(250, 0), request_timestamp |-> SystemTime(251, 999999999)],
      [type |-> "DeregisterRequest", pubkey |-> 2, timestamp |-> SystemTime(0, 0)],
      [type |-> "DeregisterResponse", timestamp |-> SystemTime(70000, 1),
       request_timestamp |-> SystemTime(3, 300)],
      [type |-> "MappingRequest", peer_pubkey |-> 2, timestamp |-> SystemTime(65536, 251)],
      [type |-> "MappingResponse", peer_pubkey |-> 1,
       endpoints |-> <<SocketAddrV4(10, 0, 0, 255, 80), SocketAddrV4(192, 168, 1, 2, 65535)>>,
       timestamp |-> SystemTime(9, 9)],
      [type |-> "MappingResponse", peer_pubkey |-> 2, endpoints |-> << >>,
       timestamp |-> SystemTime(1, 0)],
      [type |-> "TunnelPayload", tunnel_id |-> TunnelIdId(0), tracer |-> 0,
       reconstruction_tag |-> Plain, data |-> <<1, 1, 1>>],
      [type |-> "TunnelPayload", tunnel_id |-> TunnelIdName(<<119, 103>>), tracer |-> 305419896,
       reconstruction_tag |-> ReconstructionTag("Xor", 7, 300, 0), data |-> << >>],
      [type |-> "TunnelPayload", tunnel_id |-> TunnelIdId(70000), tracer |-> 256,
       reconstruction_tag |-> ReconstructionTag("Multipart", 255, 2, 1), data |-> <<0, 255>>],
      [type |-> "PeerAddressOverride", replace |-> SocketAddrV4(203, 0, 113, 9, 13116)] }

TypeOfId(id) == IF \E T \in MessageTypes : MESSAGE_ID(T) = id
                THEN CHOOSE T \in MessageTypes : MESSAGE_ID(T) = id
                ELSE ""

Pending == Err("pending")

NoWireMessage == [nonce |-> << >>, encrypted_message |-> << >>, associated_data |-> << >>]

CodecInit ==
    /\ rng \in 1..NumRandom
    /\ tx_cipher \in Ciphers
    /\ rx_cipher \in Ciphers
    /\ tx_messages = << >>
    /\ tx_wire = << >>
    /\ datagram = << >>
    /\ remaining_buf = << >>
    /\ rx_index = 0
    /\ rx_wire = NoWireMessage
    /\ rx_decrypted = Pending
    /\ rx_type = ""
    /\ rx_decoded = Pending
    /\ codec_pc = "build"

\* The codec is not in use.
CodecIdle ==
    /\ rng = 1
    /\ tx_cipher = 1
    /\ rx_cipher = 1
    /\ tx_messages = << >>
    /\ tx_wire = << >>
    /\ datagram = << >>
    /\ remaining_buf = << >>
    /\ rx_index = 0
    /\ rx_wire = NoWireMessage
    /\ rx_decrypted = Pending
    /\ rx_type = ""
    /\ rx_decoded = Pending
    /\ codec_pc = "idle"

\* payload.append(&mut m.encode()?.encrypt(cipher)?.to_bytes()?)
CodecSend ==
    /\ codec_pc = "build"
    /\ Len(tx_messages) < MaxStack
    /\ \E m \in SampleMessages :
          LET w == encrypt(encode(m, RandomNonce(rng)), tx_cipher)
          IN /\ tx_messages' = Append(tx_messages, m)
             /\ tx_wire' = Append(tx_wire, w)
             /\ datagram' = datagram \o to_bytes(w)
    /\ rng' = rng + 1
    /\ UNCHANGED <<tx_cipher, rx_cipher, remaining_buf, rx_index, rx_wire, rx_decrypted, rx_type,
                   rx_decoded, codec_pc>>
    /\ UNCHANGED <<storeVars, routingVars, accelVars, ingressVars>>
    /\ UNCHANGED instanceVars
    /\ UNCHANGED <<serverVars, runVars, readerVars, socketVars, leaseVars>>

\* The datagram arrives: remaining_buf = payload.data.as_slice()
CodecReceive ==
    /\ codec_pc = "build"
    /\ tx_messages # << >>
    /\ remaining_buf' = datagram
    /\ codec_pc' = "parse"
    /\ UNCHANGED <<rng, tx_cipher, rx_cipher, tx_messages, tx_wire, datagram, rx_index, rx_wire,
                   rx_decrypted, rx_type, rx_decoded>>
    /\ UNCHANGED <<storeVars, routingVars, accelVars, ingressVars>>
    /\ UNCHANGED instanceVars
    /\ UNCHANGED <<serverVars, runVars, readerVars, socketVars, leaseVars>>

\* let (msg, buf) = WireMessage::from_slice(remaining_buf)
CodecFromSlice ==
    /\ codec_pc = "parse"
    /\ LET r == from_slice(remaining_buf)
       IN IF r.ok
          THEN /\ rx_wire' = r.value
               /\ remaining_buf' = r.rest
               /\ rx_index' = rx_index + 1
               /\ codec_pc' = "decrypt"
          ELSE /\ codec_pc' = "failed"
               /\ UNCHANGED <<rx_wire, remaining_buf, rx_index>>
    /\ UNCHANGED <<rng, tx_cipher, rx_cipher, tx_messages, tx_wire, datagram, rx_decrypted, rx_type,
                   rx_decoded>>
    /\ UNCHANGED <<storeVars, routingVars, accelVars, ingressVars>>
    /\ UNCHANGED instanceVars
    /\ UNCHANGED <<serverVars, runVars, readerVars, socketVars, leaseVars>>

\* msg.decrypt(&cipher); a message that fails to decrypt is not decoded
CodecDecrypt ==
    /\ codec_pc = "decrypt"
    /\ rx_decrypted' = decrypt(rx_wire, rx_cipher)
    /\ codec_pc' = IF rx_decrypted'.ok THEN "decode" ELSE "next"
    /\ UNCHANGED <<rng, tx_cipher, rx_cipher, tx_messages, tx_wire, datagram, remaining_buf, rx_index,
                   rx_wire, rx_type, rx_decoded>>
    /\ UNCHANGED <<storeVars, routingVars, accelVars, ingressVars>>
    /\ UNCHANGED instanceVars
    /\ UNCHANGED <<serverVars, runVars, readerVars, socketVars, leaseVars>>

\* decrypted.decode::<T>(), for the type the message id selects or for another type
CodecDecode ==
    /\ codec_pc = "decode"
    /\ \E T \in {TypeOfId(rx_decrypted.value.message_id), "RegisterRequest", "TunnelPayload"} \cap MessageTypes :
          /\ rx_type' = T
          /\ rx_decoded' = decode(rx_decrypted.value, T)
    /\ codec_pc' = "next"
    /\ UNCHANGED <<rng, tx_cipher, rx_cipher, tx_messages, tx_wire, datagram, remaining_buf, rx_index,
                   rx_wire, rx_decrypted>>
    /\ UNCHANGED <<storeVars, routingVars, accelVars, ingressVars>>
    /\ UNCHANGED instanceVars
    /\ UNCHANGED <<serverVars, runVars, readerVars, socketVars, leaseVars>>

\* remaining_buf = buf; if remaining_buf.is_empty() { break; }
\* The results of this iteration go out of scope.
CodecContinue ==
    /\ codec_pc = "next"
    /\ codec_pc' = IF remaining_buf = << >> THEN "done" ELSE "parse"
    /\ rx_decrypted' = Pending
    /\ rx_type' = ""
    /\ rx_decoded' = Pending
    /\ UNCHANGED <<rng, tx_cipher, rx_cipher, tx_messages, tx_wire, datagram, remaining_buf, rx_index,
                   rx_wire>>
    /\ UNCHANGED <<storeVars, routingVars, accelVars, ingressVars>>
    /\ UNCHANGED instanceVars
    /\ UNCHANGED <<serverVars, runVars, readerVars, socketVars, leaseVars>>

\* ------------------------------------------------------------------------
\* The outbound data path of the warp core: gate listener, warp-accelerator,
\* routing state, interface scan and the sender task of each interface
\* ------------------------------------------------------------------------
\* The network of the scenario: the local interfaces pnet can report, in its order,
InterfaceNames == <<"eth0", "wlan0">>

\* the two addresses the peer registers at the rendezvous,
PeerAddressA == SocketAddrV4(198, 51, 100, 7, 13116)

PeerAddressB == SocketAddrV4(203, 0, 113, 9, 4000)

\* and the address a symmetric NAT shows instead of PeerAddressA.
NatAddress == SocketAddrV4(198, 51, 100, 7, 40001)

\* warp_config.warp_map.address
warp_map_address == SocketAddrV4(192, 0, 2, 1, 13117)

\* The keys of tunnel_gates: the ids of the configured tunnels.
Tunnels == {TunnelIdId(5), TunnelIdId(6)}

\* The datagrams the applications hand to the gates, in order of arrival.
ApplicationDatagrams ==
    << [tunnel_id |-> TunnelIdId(5), data |-> <<7>>],
       [tunnel_id |-> TunnelIdId(5), data |-> <<8, 9>>] >>

\* The cipher of the peer channel.
peer_cipher == 1

\* The cipher of the channel to the rendezvous server.
warp_map_cipher == 2

RxPayload(from, receiver_name, data) ==
    [from |-> from, receiver_name |-> receiver_name, data |-> data]

\* message.encode()?.encrypt(cipher)?.to_bytes()?
\* Each stage is bound by \in, so that it is computed once.
wire_bytes(message, random, cipher) ==
    CHOOSE bytes \in {to_bytes(wire_message) :
                         wire_message \in {encrypt(encoded, cipher) :
                                               encoded \in {encode(message, random)}}} : TRUE

\* One message of a datagram: the message, the random bytes of its nonce and the
\* cipher it is encrypted with.
Sealed(message, random, cipher) == [message |-> message, random |-> random, cipher |-> cipher]

\* The bytes of a datagram: the wire forms of its messages, one after the other.
RECURSIVE datagram_bytes(_)
datagram_bytes(parts) ==
    IF parts = << >> THEN << >>
    ELSE wire_bytes(Head(parts).message, Head(parts).random, Head(parts).cipher)
             \o datagram_bytes(Tail(parts))

\* A datagram on its way to an interface: source address, receiving interface, the
\* messages it carries and the bytes that follow them.
Datagram(from, receiver_name, parts, trailer) ==
    [from |-> from, receiver_name |-> receiver_name, parts |-> parts, trailer |-> trailer]

\* socket.recv_from of the receiver task: the RxPayload made of a datagram.
recv_from(received) ==
    RxPayload(received.from, received.receiver_name,
              datagram_bytes(received.parts) \o received.trailer)

RegisterResponse(address) ==
    [type |-> "RegisterResponse", address |-> address, timestamp |-> SystemTime(250, 0),
     request_timestamp |-> SystemTime(249, 5)]

MappingResponse(endpoints) ==
    [type |-> "MappingResponse", peer_pubkey |-> 1, endpoints |-> endpoints,
     timestamp |-> SystemTime(9, 9)]

PeerAddressOverride(replace) == [type |-> "PeerAddressOverride", replace |-> replace]

\* The datagrams with routing messages the interfaces receive in the scenario of the
\* outbound path, in order: MappingResponses of the rendezvous, and PeerAddressOverrides
\* of the peer, each with the interface it arrives on and the address it is observed
\* to come from.
ReceivedMessages ==
    LET datagrams ==
            << Datagram(warp_map_address, "eth0",
                        <<Sealed(MappingResponse(<<PeerAddressA, PeerAddressB>>), RandomNonce(11),
                                 warp_map_cipher)>>, << >>),
               Datagram(NatAddress, "eth0",
                        <<Sealed(PeerAddressOverride(PeerAddressA), RandomNonce(12), peer_cipher)>>,
                        << >>),
               Datagram(PeerAddressA, "wlan0",
                        <<Sealed(PeerAddressOverride(PeerAddressB), RandomNonce(13), peer_cipher)>>,
                        << >>),
               Datagram(warp_map_address, "wlan0",
                        <<Sealed(MappingResponse(<<PeerAddressA>>), RandomNonce(14),
                                 warp_map_cipher)>>, << >>) >>
    IN [k \in 1..Len(datagrams) |-> recv_from(datagrams[k])]

None == [some |-> FALSE, value |-> 0]

Some(v) == [some |-> TRUE, value |-> v]

TxPayload(to, deadline, data) == [to |-> to, deadline |-> deadline, data |-> data]

TunnelPayload_new(tunnel_id, tracer, data) ==
    [type |-> "TunnelPayload", tunnel_id |-> tunnel_id, tracer |-> tracer,
     reconstruction_tag |-> Plain, data |-> data]

OutboundTunnelPayload(tunnel_payload, deadline) ==
    [tunnel_payload |-> tunnel_payload, deadline |-> deadline]

NoOutbound == OutboundTunnelPayload(TunnelPayload_new(TunnelIdId(0), 0, << >>), 0)

\* Mutation: a complete send leaves the counter as it is.
after_send_NoReset(failures, result) == IF result = "sent" THEN failures ELSE failures + 1

\* Sender task: consecutive_failures after send_to. store(0) when all bytes were sent,
\* fetch_add(1) on a partial send, an error or a timeout.
after_send(failures, result) == IF result = "sent" THEN 0 ELSE failures + 1

\* Mutation: every interface counts as alive.
is_alive_Always(failures) == TRUE

\* NetworkInterface::is_alive, on the value of consecutive_failures
is_alive(failures) == failures < max_consecutive_failures

\* Mutation: the overrides are not applied.
resolve_peer_addresses_NoOverride(peers, overrides, outbound_interface_name) == peers

\* RoutingState::resolve_peer_addresses
resolve_peer_addresses(peers, overrides, outbound_interface_name) ==
    [k \in 1..Len(peers) |->
        IF <<outbound_interface_name, peers[k]>> \in DOMAIN overrides
        THEN overrides[<<outbound_interface_name, peers[k]>>]
        ELSE peers[k]]

\* Mutation: the entry is queued without the deadline of the payload.
queue_send_NoDeadline(queue, data, address, deadline) ==
    Append(queue, TxPayload(address, None, data))

\* NetworkInterface::queue_send
queue_send(queue, data, address, deadline) == Append(queue, TxPayload(address, deadline, data))

\* The inner loop of the accelerator: queue_send for each resolved address, in order.
RECURSIVE queue_send_each(_, _, _, _, _)
queue_send_each(queue, data, resolved_addresses, deadline, k) ==
    IF k > Len(resolved_addresses) THEN queue
    ELSE queue_send_each(queue_send(queue, data, resolved_addresses[k], deadline),
                         data, resolved_addresses, deadline, k + 1)

\* Mutation: the override is stored for every interface.
handle_peer_address_override_AllInterfaces(overrides, override_msg, from, interface_name) ==
    [key \in DOMAIN overrides \cup {<<i, override_msg.replace>> : i \in Range(InterfaceNames)} |->
        IF key[2] = override_msg.replace THEN from ELSE overrides[key]]

\* RoutingState::handle_peer_address_override: the map after the insert
handle_peer_address_override(overrides, override_msg, from, interface_name) ==
    MapPut(overrides, <<interface_name, override_msg.replace>>, from)

\* Mutation: the overrides of endpoints are dropped and the stale ones are kept.
retain_overrides_Inverted(overrides, endpoints) ==
    [key \in {x \in DOMAIN overrides : x[2] \notin Range(endpoints)} |-> overrides[key]]

\* The overrides handle_mapping_response keeps: those whose replaced address is an endpoint.
retain_overrides(overrides, endpoints) ==
    [key \in {x \in DOMAIN overrides : x[2] \in Range(endpoints)} |-> overrides[key]]

NotInMapping == [pruning |-> FALSE, endpoints |-> << >>]

NoResolve == [outbound_interface_name |-> "", resolved_addresses |-> << >>]

\* No caller holds a Ref of the peer list.
NoGuard == [held |-> FALSE, outbound_interface_name |-> "", peer_addresses |-> << >>]

\* Mutation: send_replace does not wait for the readers.
write_blocked_Never(guard) == FALSE

\* watch::Sender::send_replace takes the write lock of the value, which waits while a
\* Ref of borrow() is alive.
write_blocked(guard) == guard.held

\* The datagrams the interfaces receive in the scenario of the routing state: the
\* rendezvous reports the peer's endpoints, and the peer's overrides arrive on either
\* interface, for either endpoint, from the endpoint itself or from a NAT address.
RoutingRxSamples ==
    LET responses ==
            {Datagram(warp_map_address, "eth0",
                      <<Sealed(MappingResponse(endpoints), RandomNonce(31), warp_map_cipher)>>,
                      << >>) :
                endpoints \in {<< >>, <<PeerAddressB>>, <<PeerAddressA, PeerAddressB>>,
                               <<PeerAddressB, PeerAddressA>>}}
        overrides ==
            {Datagram(from, name,
                      <<Sealed(PeerAddressOverride(replace), RandomNonce(32), peer_cipher)>>,
                      << >>) :
                from \in {PeerAddressA, NatAddress}, name \in Range(InterfaceNames),
                replace \in {PeerAddressA, PeerAddressB}}
    IN {recv_from(received) : received \in responses \cup overrides}

\* Mutation: every datagram is decrypted with the peer cipher.
rx_cipher_of_PeerOnly(from) == peer_cipher

\* rx processor: `match payload.from`, the cipher the message is decrypted with.
rx_cipher_of(from) == IF from = warp_map_address THEN warp_map_cipher ELSE peer_cipher

\* rx processor: the message types that have a branch for a datagram from `from`.
rx_handled(from) ==
    IF from = warp_map_address THEN {"RegisterResponse", "MappingResponse"}
    ELSE {"TunnelPayload", "PeerAddressOverride"}

\* rx processor: what the body of the parse loop does with the first WireMessage of the
\* payload. outcome is the branch taken: the type of the message that is handled,
\* "unknown" (UNKNOWN_MESSAGE_FROM_WARP_MAP), "unexpected" and "invalid" (the two
\* warnings of the peer branch), or "panic" (an unwrap() on an Err).
rx_branch(from, parsed, decrypted, decoded) ==
    [outcome |->
         IF ~parsed.ok THEN "panic"
         ELSE IF ~decrypted.ok THEN (IF from = warp_map_address THEN "panic" ELSE "invalid")
         ELSE IF TypeOfId(decrypted.value.message_id) \notin rx_handled(from)
         THEN (IF from = warp_map_address THEN "unknown" ELSE "unexpected")
         ELSE IF ~decoded.ok THEN "panic"
         ELSE TypeOfId(decrypted.value.message_id),
     message |-> IF decoded.ok THEN decoded.value ELSE << >>,
     rest |-> IF parsed.ok THEN parsed.rest ELSE << >>]

\* from_slice, decrypt and decode::<T> of the parse loop, each applied once to the
\* result of the one before; a step that is not reached has the result Pending.
rx_message(payload) ==
    CHOOSE branch \in UNION UNION
        {{{rx_branch(payload.from, parsed, decrypted, decoded) :
              decoded \in {IF /\ decrypted.ok
                              /\ TypeOfId(decrypted.value.message_id) \in rx_handled(payload.from)
                           THEN decode(decrypted.value, TypeOfId(decrypted.value.message_id))
                           ELSE Pending}} :
              decrypted \in {IF parsed.ok
                             THEN decrypt(parsed.value, rx_cipher_of(payload.from))
                             ELSE Pending}} :
              parsed \in {from_slice(payload.data)}} : TRUE

\* The rx processor is between two messages.
NoMessage == [outcome |-> "none", message |-> << >>, rest |-> << >>]

\* Mutation: the rest of the datagram is dropped with the message.
rx_continue_DropRest(channel, rest) == Tail(channel)

\* rx processor: remaining_buf = buf; the payload is done when nothing remains.
rx_continue(channel, rest) ==
    IF rest = << >> THEN Tail(channel)
    ELSE <<[Head(channel) EXCEPT !.data = rest]>> \o Tail(channel)

\* Mutation: every gate takes the payload.
tunnel_gates_get_All(tunnel_id) == Tunnels

\* tunnel_gates.get(&tunnel_payload.tunnel_id): the gate of the tunnel, if there is one.
tunnel_gates_get(tunnel_id) == {gate \in Tunnels : gate = tunnel_id}

\* Mutation: the new item overtakes the items that wait in the channel.
mpsc_send_Front(channel, item) == <<item>> \o channel

\* UnboundedSender::send
mpsc_send(channel, item) == Append(channel, item)

\* The datagrams the interfaces receive in the scenario of the inbound path: every
\* kind of message the rx processor tells apart, from the rendezvous address, from a
\* peer address and from an address behind a NAT, under the cipher that belongs to
\* the message and under the other one; a datagram with two stacked messages, as the
\* rendezvous answers a registration; a datagram with bytes after a message; and a
\* datagram that is no WireMessage.
RxSamples ==
    LET overrides ==
            {Datagram(from, key[1],
                      <<Sealed(PeerAddressOverride(key[2]), RandomNonce(21), peer_cipher)>>,
                      << >>) :
                from \in {warp_map_address, PeerAddressA, NatAddress},
                key \in {<<"eth0", PeerAddressA>>, <<"wlan0", PeerAddressA>>,
                         <<"eth0", PeerAddressB>>}}
        responses ==
            {Datagram(from, "eth0", <<Sealed(m, RandomNonce(22), cipher)>>, << >>) :
                from \in {warp_map_address, PeerAddressA},
                m \in {RegisterResponse(NatAddress),
                       MappingResponse(<<PeerAddressA, PeerAddressB>>),
                       MappingResponse(<<PeerAddressB>>)},
                cipher \in {warp_map_cipher, peer_cipher}}
        tunnel_payloads ==
            {Datagram(from, "eth0",
                      <<Sealed(TunnelPayload_new(tunnel_id, 3, <<1>>), RandomNonce(23), cipher)>>,
                      << >>) :
                from \in {warp_map_address, PeerAddressA},
                tunnel_id \in {TunnelIdId(5), TunnelIdId(9)},
                cipher \in {warp_map_cipher, peer_cipher}}
        others ==
            {Datagram(from, "wlan0", content[1], content[2]) :
                from \in {warp_map_address, PeerAddressA},
                content \in
                    {<< <<Sealed(RegisterResponse(NatAddress), RandomNonce(24),
                                 warp_map_cipher)>>, << >> >>,
                     << <<Sealed(PeerAddressOverride(PeerAddressA), RandomNonce(24),
                                 warp_map_cipher)>>, << >> >>,
                     << <<Sealed([type |-> "MappingRequest", peer_pubkey |-> 2,
                                  timestamp |-> SystemTime(1, 0)], RandomNonce(24),
                                 peer_cipher)>>, << >> >>,
                     << <<Sealed(RegisterResponse(NatAddress), RandomNonce(25), warp_map_cipher),
                          Sealed(MappingResponse(<<PeerAddressA>>), RandomNonce(26),
                                 warp_map_cipher)>>, << >> >>,
                     << <<Sealed(PeerAddressOverride(PeerAddressB), RandomNonce(27),
                                 peer_cipher)>>, <<1, 2, 3>> >>,
                     << << >>, <<1, 2, 3>> >>}}
    IN {recv_from(received) : received \in overrides \cup responses \cup tunnel_payloads \cup others}

RoutingInit ==
    /\ interfaces = << >>
    /\ consecutive_failures = [i \in Range(InterfaceNames) |-> 0]
    /\ send_queue = [i \in Range(InterfaceNames) |-> << >>]
    /\ peer_addresses = << >>
    /\ address_overrides = EmptyMap
    /\ mapping_pc = NotInMapping
    /\ rx = ReceivedMessages

\* The inbound path at work: eth0 is in the published list, wlan0 is not.
RxInit ==
    /\ interfaces = <<"eth0">>
    /\ consecutive_failures = [i \in Range(InterfaceNames) |-> 0]
    /\ send_queue = [i \in Range(InterfaceNames) |-> << >>]
    /\ peer_addresses = << >>
    /\ address_overrides = EmptyMap
    /\ mapping_pc = NotInMapping
    /\ rx = << >>

IngressInit ==
    /\ routing_call = NoResolve
    /\ rx_current = NoMessage
    /\ rx_task = "running"
    /\ external_address = [i \in Range(InterfaceNames) |-> None]
    /\ application_inbound_channel = [t \in Tunnels |-> << >>]
    /\ application_socket = [t \in Tunnels |-> None]

AccelInit ==
    /\ tracer_generator = [t \in Tunnels |-> 0]
    /\ outbound_tunnel_payloads = << >>
    /\ acc_pc = "recv"
    /\ acc_outbound = NoOutbound
    /\ acc_data = << >>
    /\ acc_index = 0
    /\ acc_log = << >>

\* The data path is not in use.
AccelIdle ==
    /\ tracer_generator = [t \in Tunnels |-> 0]
    /\ outbound_tunnel_payloads = << >>
    /\ acc_pc = "idle"
    /\ acc_outbound = NoOutbound
    /\ acc_data = << >>
    /\ acc_index = 0
    /\ acc_log = << >>

\* One round of the interface scan task. `detected` is what pnet reports. The list
\* keeps the interfaces that are alive and still detected; every other detected
\* interface gets a new NetworkInterface (no failures, an empty queue). The list is
\* published with send_replace, which waits while the accelerator borrows it.
InterfaceScan ==
    /\ acc_pc \notin {"filter", "enqueue"}
    /\ \E detected \in SUBSET Range(InterfaceNames) :
          LET kept == SelectSeq(interfaces,
                                LAMBDA i : is_alive(consecutive_failures[i]) /\ i \in detected)
              created == SelectSeq(InterfaceNames, LAMBDA i : i \in detected /\ i \notin Range(kept))
          IN /\ interfaces' = kept \o created
             /\ consecutive_failures' =
                    [i \in Range(InterfaceNames) |-> IF i \in Range(kept) THEN consecutive_failures[i] ELSE 0]
             /\ send_queue' = [i \in Range(InterfaceNames) |-> IF i \in Range(kept) THEN send_queue[i] ELSE << >>]
             /\ external_address' =
                    [i \in Range(InterfaceNames) |-> IF i \in Range(kept) THEN external_address[i] ELSE None]
    /\ UNCHANGED <<peer_addresses, address_overrides, mapping_pc, rx>>
    /\ UNCHANGED <<routing_call, rx_current, rx_task, application_inbound_channel, application_socket>>
    /\ UNCHANGED <<storeVars, codecVars, accelVars>>
    /\ UNCHANGED instanceVars
    /\ UNCHANGED <<serverVars, runVars, readerVars, socketVars, leaseVars>>

\* rx processor, MappingResponse branch: RoutingState::handle_mapping_response, first
\* update: the peer list is replaced.
MappingReplacePeers ==
    /\ rx_task = "running"
    /\ ~mapping_pc.pruning
    /\ rx_current.outcome = "MappingResponse"
    /\ ~write_blocked(reader_guard)
    /\ peer_addresses' = rx_current.message.endpoints
    /\ mapping_pc' = [pruning |-> TRUE, endpoints |-> rx_current.message.endpoints]
    /\ UNCHANGED <<interfaces, consecutive_failures, send_queue, address_overrides, rx>>
    /\ UNCHANGED <<storeVars, codecVars, accelVars, ingressVars>>
    /\ UNCHANGED instanceVars
    /\ UNCHANGED <<serverVars, runVars, readerVars, socketVars, leaseVars>>

\* RoutingState::handle_mapping_response, second update: the stale overrides are pruned.
MappingPruneOverrides ==
    /\ mapping_pc.pruning
    /\ address_overrides' = retain_overrides(address_overrides, mapping_pc.endpoints)
    /\ mapping_pc' = NotInMapping
    /\ rx' = rx_continue(rx, rx_current.rest)
    /\ rx_current' = NoMessage
    /\ UNCHANGED <<interfaces, consecutive_failures, send_queue, peer_addresses>>
    /\ UNCHANGED <<routing_call, rx_task, external_address, application_inbound_channel,
                   application_socket>>
    /\ UNCHANGED <<storeVars, codecVars, accelVars>>
    /\ UNCHANGED instanceVars
    /\ UNCHANGED <<serverVars, runVars, readerVars, socketVars, leaseVars>>

\* RoutingState::handle_peer_address_override, called by the rx processor for a
\* PeerAddressOverride{replace} that arrived from `from` on interface_name.
HandlePeerAddressOverride ==
    /\ rx_task = "running"
    /\ ~mapping_pc.pruning
    /\ rx_current.outcome = "PeerAddressOverride"
    /\ LET override_msg == rx_current.message
           from == Head(rx).from
           interface_name == Head(rx).receiver_name
       IN address_overrides' =
              handle_peer_address_override(address_overrides, override_msg, from, interface_name)
    /\ rx' = rx_continue(rx, rx_current.rest)
    /\ rx_current' = NoMessage
    /\ UNCHANGED <<interfaces, consecutive_failures, send_queue, peer_addresses, mapping_pc>>
    /\ UNCHANGED <<routing_call, rx_task, external_address, application_inbound_channel,
                   application_socket>>
    /\ UNCHANGED <<storeVars, codecVars, accelVars>>
    /\ UNCHANGED instanceVars
    /\ UNCHANGED <<serverVars, runVars, readerVars, socketVars, leaseVars>>

\* Number of datagrams the gates have received from their applications.
RECURSIVE datagrams_received(_, _)
datagrams_received(counters, tunnels) ==
    IF tunnels = {} THEN 0
    ELSE LET t == CHOOSE x \in tunnels : TRUE
         IN counters[t] + datagrams_received(counters, tunnels \ {t})

\* 127.0.0.1:port
LoopbackAddress(port) == SocketAddrV4(127, 0, 0, 1, port)

\* Gate::create_socket for a loopback gate: the fixed destination, which is also
\* announced on the watch channel, when gate_to_application gives a port.
create_socket(gate_to_application) ==
    IF gate_to_application.some
    THEN [fixed_destination |-> Some(LoopbackAddress(gate_to_application.value)),
          current_destination |-> Some(LoopbackAddress(gate_to_application.value))]
    ELSE [fixed_destination |-> None, current_destination |-> None]

\* Mutation: the destination is learnt from the first datagram only.
recv_from_application_First(fixed, current, addr) ==
    IF fixed.some \/ current.some THEN current ELSE Some(addr)

\* ApplicationSocket::recv_from_application, Loopback: the watched destination after a
\* datagram from addr.
recv_from_application(fixed, current, addr) ==
    IF ~fixed.some THEN Some(addr) ELSE current

\* ApplicationSocket::send_to_application, Loopback: the address of the send_to, or
\* None for the error "no destination address provided".
send_to_application(fixed, fallback_addr) ==
    IF fixed.some THEN fixed
    ELSE IF fallback_addr.some THEN fallback_addr
    ELSE None

\* The listener task of the gate of tunnel_id: one datagram of the application, read
\* from the source address addr, becomes a TunnelPayload with the next tracer of this
\* gate and the deadline now + send_deadline.
GateListener(tunnel_id, addr, data, now) ==
    /\ acc_pc # "idle"
    /\ outbound_tunnel_payloads' =
           mpsc_send(outbound_tunnel_payloads,
                     OutboundTunnelPayload(
                         TunnelPayload_new(tunnel_id, tracer_generator[tunnel_id], data),
                         now + send_deadline))
    /\ tracer_generator' = [tracer_generator EXCEPT ![tunnel_id] = @ + 1]
    /\ UNCHANGED <<acc_pc, acc_outbound, acc_data, acc_index, acc_log>>
    /\ UNCHANGED <<storeVars, codecVars, routingVars, ingressVars>>
    /\ UNCHANGED instanceVars
    /\ application_from' = [application_from EXCEPT ![tunnel_id] = Some(addr)]
    /\ current_destination' =
           [current_destination EXCEPT ![tunnel_id] =
               recv_from_application(fixed_destination[tunnel_id], @, addr)]
    /\ UNCHANGED <<fixed_destination, application_destination>>
    /\ UNCHANGED <<serverVars, runVars, readerVars, leaseVars>>

\* warp-accelerator: outbound_tunnel_payloads.recv(), then encode, encrypt, to_bytes,
\* and the borrow of the interface list for the loop.
AccelRecv ==
    /\ acc_pc = "recv"
    /\ outbound_tunnel_payloads # << >>
    /\ acc_outbound' = Head(outbound_tunnel_payloads)
    /\ outbound_tunnel_payloads' = Tail(outbound_tunnel_payloads)
    /\ acc_data' = to_bytes(encrypt(encode(Head(outbound_tunnel_payloads).tunnel_payload,
                                           RandomNonce(rng)), peer_cipher))
    /\ rng' = rng + 1
    /\ acc_index' = 1
    /\ acc_log' = << >>
    /\ acc_pc' = "filter"
    /\ UNCHANGED tracer_generator
    /\ UNCHANGED <<tx_cipher, rx_cipher, tx_messages, tx_wire, datagram, remaining_buf, rx_index,
                   rx_wire, rx_decrypted, rx_type, rx_decoded, codec_pc>>
    /\ UNCHANGED <<storeVars, routingVars, ingressVars>>
    /\ UNCHANGED instanceVars
    /\ UNCHANGED <<serverVars, runVars, readerVars, socketVars, leaseVars>>

\* warp-accelerator: the iterator's next(), with its filter on is_alive().
AccelFilter ==
    /\ acc_pc = "filter"
    /\ IF acc_index > Len(interfaces)
       THEN /\ acc_pc' = "notify"
            /\ UNCHANGED acc_index
       ELSE IF is_alive(consecutive_failures[interfaces[acc_index]])
       THEN /\ acc_pc' = "enqueue"
            /\ UNCHANGED acc_index
       ELSE /\ acc_pc' = "filter"
            /\ acc_index' = acc_index + 1
    /\ UNCHANGED <<tracer_generator, outbound_tunnel_payloads, acc_outbound, acc_data, acc_log>>
    /\ UNCHANGED <<storeVars, codecVars, routingVars, ingressVars>>
    /\ UNCHANGED instanceVars
    /\ UNCHANGED <<serverVars, runVars, readerVars, socketVars, leaseVars>>

\* warp-accelerator: the body of the loop for one interface.
AccelEnqueue ==
    /\ acc_pc = "enqueue"
    /\ LET interface == interfaces[acc_index]
           resolved_addresses == resolve_peer_addresses(peer_addresses, address_overrides, interface)
       IN /\ send_queue' = [send_queue EXCEPT ![interface] =
                               queue_send_each(@, acc_data, resolved_addresses,
                                               Some(acc_outbound.deadline), 1)]
          /\ acc_log' = acc_log \o [k \in 1..Len(resolved_addresses) |->
                                       [tracer |-> acc_outbound.tunnel_payload.tracer,
                                        interface |-> interface,
                                        resolved_addr |-> resolved_addresses[k]]]
    /\ acc_index' = acc_index + 1
    /\ acc_pc' = "filter"
    /\ UNCHANGED <<tracer_generator, outbound_tunnel_payloads, acc_outbound, acc_data>>
    /\ UNCHANGED <<interfaces, consecutive_failures, peer_addresses, address_overrides, mapping_pc,
                   rx>>
    /\ UNCHANGED <<storeVars, codecVars, ingressVars>>
    /\ UNCHANGED instanceVars
    /\ UNCHANGED <<serverVars, runVars, readerVars, socketVars, leaseVars>>

\* warp-accelerator: the completion of the fan-out is signalled; the locals of this
\* iteration go out of scope and the task is back at recv().
AccelNotify ==
    /\ acc_pc = "notify"
    /\ acc_pc' = "recv"
    /\ acc_outbound' = NoOutbound
    /\ acc_data' = << >>
    /\ acc_index' = 0
    /\ acc_log' = << >>
    /\ UNCHANGED <<tracer_generator, outbound_tunnel_payloads>>
    /\ UNCHANGED <<storeVars, codecVars, routingVars, ingressVars>>
    /\ UNCHANGED instanceVars
    /\ UNCHANGED <<serverVars, runVars, readerVars, socketVars, leaseVars>>

\* The receiver task of an interface: a datagram read from the socket is forwarded to
\* the rx processor.
InterfaceReceive(payload) ==
    /\ rx_task # "idle"
    /\ rx = << >>
    /\ rx' = mpsc_send(rx, payload)
    /\ UNCHANGED <<interfaces, consecutive_failures, send_queue, peer_addresses, address_overrides,
                   mapping_pc>>
    /\ UNCHANGED <<storeVars, codecVars, accelVars, ingressVars>>
    /\ UNCHANGED instanceVars
    /\ UNCHANGED <<serverVars, runVars, readerVars, socketVars, leaseVars>>

\* rx processor: the next message of the datagram at the head of the channel is
\* parsed, decrypted with the cipher of its source address and decoded.
RxDecode ==
    /\ rx_task = "running"
    /\ rx_current.outcome = "none"
    /\ rx # << >>
    /\ rx_current' = rx_message(Head(rx))
    /\ UNCHANGED <<routing_call, rx_task, external_address, application_inbound_channel,
                   application_socket>>
    /\ UNCHANGED <<storeVars, codecVars, routingVars, accelVars>>
    /\ UNCHANGED instanceVars
    /\ UNCHANGED <<serverVars, runVars, readerVars, socketVars, leaseVars>>

\* Mutation: every interface of the list learns the address.
set_external_address_Every(external, list, receiver_name, address) ==
    [name \in DOMAIN external |-> IF name \in Range(list) THEN Some(address) ELSE external[name]]

\* rx processor, RegisterResponse branch: the loop over routing_state.interfaces() that
\* calls set_external_address on the interface named receiver_name and breaks.
set_external_address(external, list, receiver_name, address) ==
    IF receiver_name \in Range(list)
    THEN [external EXCEPT ![receiver_name] = Some(address)]
    ELSE external

\* rx processor, RegisterResponse branch: the first interface of the list with the
\* name of the receiving interface learns its external address.
RxRegisterResponse ==
    /\ rx_task = "running"
    /\ ~mapping_pc.pruning
    /\ rx_current.outcome = "RegisterResponse"
    /\ external_address' = set_external_address(external_address, interfaces,
                                                Head(rx).receiver_name, rx_current.message.address)
    /\ rx' = rx_continue(rx, rx_current.rest)
    /\ rx_current' = NoMessage
    /\ UNCHANGED <<interfaces, consecutive_failures, send_queue, peer_addresses, address_overrides,
                   mapping_pc>>
    /\ UNCHANGED <<routing_call, rx_task, application_inbound_channel, application_socket>>
    /\ UNCHANGED <<storeVars, codecVars, accelVars>>
    /\ UNCHANGED instanceVars
    /\ UNCHANGED <<serverVars, runVars, readerVars, socketVars, leaseVars>>

\* rx processor, TunnelPayload branch: the payload goes to the gate of its tunnel
\* (Gate::send_to_application), or is dropped with a warning when there is none.
RxTunnelPayload ==
    /\ rx_task = "running"
    /\ ~mapping_pc.pruning
    /\ rx_current.outcome = "TunnelPayload"
    /\ \E gates \in {tunnel_gates_get(rx_current.message.tunnel_id)} :
          /\ \A gate \in gates : Len(application_inbound_channel[gate]) < MaxInbound
          /\ application_inbound_channel' =
                 [gate \in Tunnels |->
                     IF gate \in gates
                     THEN mpsc_send(application_inbound_channel[gate], rx_current.message)
                     ELSE application_inbound_channel[gate]]
    /\ rx' = rx_continue(rx, rx_current.rest)
    /\ rx_current' = NoMessage
    /\ UNCHANGED <<interfaces, consecutive_failures, send_queue, peer_addresses, address_overrides,
                   mapping_pc>>
    /\ UNCHANGED <<routing_call, rx_task, external_address, application_socket>>
    /\ UNCHANGED <<storeVars, codecVars, accelVars>>
    /\ UNCHANGED instanceVars
    /\ UNCHANGED <<serverVars, runVars, readerVars, socketVars, leaseVars>>

\* rx processor: the branches that only log (an unknown message of the rendezvous, an
\* unexpected message of the peer, a message the peer cipher does not decrypt).
RxIgnore ==
    /\ rx_task = "running"
    /\ ~mapping_pc.pruning
    /\ rx_current.outcome \in {"unknown", "unexpected", "invalid"}
    /\ rx' = rx_continue(rx, rx_current.rest)
    /\ rx_current' = NoMessage
    /\ UNCHANGED <<interfaces, consecutive_failures, send_queue, peer_addresses, address_overrides,
                   mapping_pc>>
    /\ UNCHANGED <<routing_call, rx_task, external_address, application_inbound_channel,
                   application_socket>>
    /\ UNCHANGED <<storeVars, codecVars, accelVars>>
    /\ UNCHANGED instanceVars
    /\ UNCHANGED <<serverVars, runVars, readerVars, socketVars, leaseVars>>

\* A task (the accelerator, the override sender) calls
\* routing_state.resolve_peer_addresses(outbound_interface_name):
\* peer_addresses_watch.borrow().
ResolveBorrowPeers(outbound_interface_name) ==
    /\ routing_call = NoResolve
    /\ ~reader_guard.held
    /\ reader_guard' = [held |-> TRUE, outbound_interface_name |-> outbound_interface_name,
                        peer_addresses |-> peer_addresses]
    /\ UNCHANGED <<storeVars, codecVars, routingVars, accelVars, ingressVars>>
    /\ UNCHANGED instanceVars
    /\ UNCHANGED <<serverVars, runVars, socketVars, leaseVars>>

\* resolve_peer_addresses, from address_overrides_watch.borrow() to the return: the
\* overrides are read as they are now, the peer list through the Ref taken before,
\* and both Refs are dropped.
ResolvePeerAddresses(outbound_interface_name) ==
    /\ routing_call = NoResolve
    /\ reader_guard.held
    /\ reader_guard.outbound_interface_name = outbound_interface_name
    /\ routing_call' =
           [outbound_interface_name |-> outbound_interface_name,
            resolved_addresses |->
                resolve_peer_addresses(reader_guard.peer_addresses, address_overrides,
                                       outbound_interface_name)]
    /\ reader_guard' = NoGuard
    /\ UNCHANGED <<rx_task, rx_current, external_address, application_inbound_channel,
                   application_socket>>
    /\ UNCHANGED <<storeVars, codecVars, routingVars, accelVars>>
    /\ UNCHANGED instanceVars
    /\ UNCHANGED <<serverVars, runVars, socketVars, leaseVars>>

\* The caller is done with the resolved addresses.
ResolveReturn ==
    /\ routing_call # NoResolve
    /\ routing_call' = NoResolve
    /\ UNCHANGED <<rx_task, rx_current, external_address, application_inbound_channel,
                   application_socket>>
    /\ UNCHANGED <<storeVars, codecVars, routingVars, accelVars>>
    /\ UNCHANGED instanceVars
    /\ UNCHANGED <<serverVars, runVars, readerVars, socketVars, leaseVars>>

\* rx processor: an unwrap() meets an Err and the task ends.
RxPanic ==
    /\ rx_task = "running"
    /\ ~mapping_pc.pruning
    /\ rx_current.outcome = "panic"
    /\ rx_task' = "panicked"
    /\ UNCHANGED <<routing_call, rx_current, external_address, application_inbound_channel, application_socket>>
    /\ UNCHANGED <<storeVars, codecVars, routingVars, accelVars>>
    /\ UNCHANGED instanceVars
    /\ UNCHANGED <<serverVars, runVars, readerVars, socketVars, leaseVars>>

\* The sender task of the gate of tunnel_id: the next payload of the inbound channel
\* is written to the application socket, at the fixed destination or at the watched
\* one; `result` is the outcome of the send_to. Without destination the payload is
\* dropped with the error of send_to_application.
GateApplicationSender(tunnel_id) ==
    /\ application_inbound_channel[tunnel_id] # << >>
    /\ \E result \in {"sent", "failed"} :
          LET tunnel_payload == Head(application_inbound_channel[tunnel_id])
              fallback_destination == current_destination[tunnel_id]
              destination == send_to_application(fixed_destination[tunnel_id], fallback_destination)
          IN IF destination.some /\ result = "sent"
             THEN /\ application_socket' = [application_socket EXCEPT ![tunnel_id] = Some(tunnel_payload)]
                  /\ application_destination' =
                         [application_destination EXCEPT ![tunnel_id] = destination]
             ELSE UNCHANGED <<application_socket, application_destination>>
    /\ application_inbound_channel' = [application_inbound_channel EXCEPT ![tunnel_id] = Tail(@)]
    /\ UNCHANGED <<fixed_destination, current_destination, application_from>>
    /\ UNCHANGED <<routing_call, rx_current, rx_task, external_address>>
    /\ UNCHANGED <<storeVars, codecVars, routingVars, accelVars>>
    /\ UNCHANGED instanceVars
    /\ UNCHANGED <<serverVars, runVars, readerVars, leaseVars>>

\* The sender task of an interface takes one TxPayload from its queue. `now` is the
\* Instant::now() of the deadline test, `result` the outcome of send_to.
\* A missed deadline drops the entry and leaves the counter alone. The counter is
\* followed up to max_consecutive_failures, the value is_alive() compares it with.
InterfaceSender ==
    /\ acc_pc # "idle"
    /\ \E interface \in Range(InterfaceNames), now \in Instants,
          result \in {"sent", "incomplete", "failed", "timeout"} :
          /\ send_queue[interface] # << >>
          /\ LET tx_payload == Head(send_queue[interface])
                 missed == tx_payload.deadline.some /\ tx_payload.deadline.value < now
             IN /\ send_queue' = [send_queue EXCEPT ![interface] = Tail(@)]
                /\ \/ /\ missed
                      /\ result = "sent"
                      /\ UNCHANGED consecutive_failures
                   \/ /\ ~missed
                      /\ result = "sent"
                      /\ consecutive_failures' =
                             [consecutive_failures EXCEPT ![interface] = after_send(@, result)]
                   \/ /\ ~missed
                      /\ result # "sent"
                      /\ consecutive_failures[interface] < max_consecutive_failures
                      /\ consecutive_failures' =
                             [consecutive_failures EXCEPT ![interface] = after_send(@, result)]
    /\ UNCHANGED <<interfaces, peer_addresses, address_overrides, mapping_pc, rx>>
    /\ UNCHANGED <<storeVars, codecVars, accelVars, ingressVars>>
    /\ UNCHANGED instanceVars
    /\ UNCHANGED <<serverVars, runVars, readerVars, socketVars, leaseVars>>

\* ------------------------------------------------------------------------
\* The NetworkInterface objects one by one. The data path above knows an interface
\* by its name; here every object the scan task creates is kept, also after the scan
\* task has removed it from its list: NetworkInterface::new hands a clone of the
\* Arc to each of the three tasks it spawns, so the object and its tasks live on.
\* ------------------------------------------------------------------------
\* Sender task: the tracing event of a send result.
send_event(result) ==
    CASE result = "sent" -> "INTERFACE_SEND"
      [] result = "incomplete" -> "INTERFACE_SEND_INCOMPLETE"
      [] result = "failed" -> "INTERFACE_SEND_FAILED"
      [] result = "timeout" -> "INTERFACE_SEND_TIMEOUT"

\* NetworkInterface::new
NetworkInterface_new(id) == [id |-> id, consecutive_failures |-> 0, sender_queue |-> << >>]

\* register_interface: a RegisterRequest and a MappingRequest in one datagram.
register_interface_payload ==
    datagram_bytes(<<Sealed([type |-> "RegisterRequest", pubkey |-> 1,
                             timestamp |-> SystemTime(1, 0)], RandomNonce(41), warp_map_cipher),
                     Sealed([type |-> "MappingRequest", peer_pubkey |-> 2,
                             timestamp |-> SystemTime(1, 0)], RandomNonce(42), warp_map_cipher)>>)

\* Mutation: every enumerated id gets a new interface.
new_interface_ids_All(ipv4_interfaces, retained_ids) == ipv4_interfaces

\* Scan task: the enumerated ids that no retained interface has.
new_interface_ids(ipv4_interfaces, retained_ids) ==
    SelectSeq(ipv4_interfaces, LAMBDA id : id \notin retained_ids)

NoEvent == [name |-> "", instant |-> 0]

InstanceInit ==
    /\ datalink = [name \in Range(InterfaceNames) |-> "absent"]
    /\ network_interfaces = << >>
    /\ watch_interfaces = << >>
    /\ watch_version = 0
    /\ sender_event = NoEvent

\* The interfaces are not followed one by one.
InstanceIdle == InstanceInit

\* The operating system: an interface appears, disappears, or its address can no
\* longer be bound.
DatalinkChange(name, status) ==
    /\ datalink[name] # status
    /\ datalink' = [datalink EXCEPT ![name] = status]
    /\ UNCHANGED <<network_interfaces, watch_interfaces, watch_version, sender_event>>
    /\ UNCHANGED <<storeVars, codecVars, routingVars, accelVars, ingressVars>>
    /\ UNCHANGED <<serverVars, runVars, readerVars, socketVars, leaseVars>>

\* One round of the interface scan task: retain the alive interfaces, retain the
\* enumerated ones, create an interface for every other enumerated id, publish.
ScanInterfaces ==
    LET ipv4_interfaces == SelectSeq(InterfaceNames, LAMBDA name : datalink[name] # "absent")
        alive == SelectSeq(watch_interfaces,
                           LAMBDA k : is_alive(network_interfaces[k].consecutive_failures))
        retained == SelectSeq(alive, LAMBDA k : network_interfaces[k].id \in Range(ipv4_interfaces))
        new_ids == new_interface_ids(ipv4_interfaces,
                                     {network_interfaces[k].id : k \in Range(retained)})
        created == SelectSeq(new_ids, LAMBDA id : datalink[id] = "up")
    IN /\ Len(network_interfaces) + Len(created) <= MaxInstances
       /\ network_interfaces' =
              network_interfaces \o [j \in 1..Len(created) |-> NetworkInterface_new(created[j])]
       /\ watch_interfaces' = retained \o [j \in 1..Len(created) |-> Len(network_interfaces) + j]
       /\ watch_version' = (watch_version + 1) % 2
       /\ UNCHANGED <<datalink, sender_event>>
       /\ UNCHANGED <<storeVars, codecVars, routingVars, accelVars, ingressVars>>
       /\ UNCHANGED <<serverVars, runVars, readerVars, socketVars, leaseVars>>

\* The registration task of the k-th interface: register_interface queues the
\* registration datagram for the rendezvous server, without a deadline.
RegistrationTask(k) ==
    /\ Len(network_interfaces[k].sender_queue) < MaxQueue
    /\ network_interfaces' =
           [network_interfaces EXCEPT ![k].sender_queue =
               queue_send(@, register_interface_payload, warp_map_address, None)]
    /\ UNCHANGED <<datalink, watch_interfaces, watch_version, sender_event>>
    /\ UNCHANGED <<storeVars, codecVars, routingVars, accelVars, ingressVars>>
    /\ UNCHANGED <<serverVars, runVars, readerVars, socketVars, leaseVars>>

\* The accelerator or the override sender, which take the interfaces from the
\* published list, queue `data` for a peer on the k-th interface.
QueueSend(k, data, deadline) ==
    /\ k \in Range(watch_interfaces)
    /\ is_alive(network_interfaces[k].consecutive_failures)
    /\ Len(network_interfaces[k].sender_queue) < MaxQueue
    /\ network_interfaces' =
           [network_interfaces EXCEPT ![k].sender_queue =
               queue_send(@, data, PeerAddressA, deadline)]
    /\ UNCHANGED <<datalink, watch_interfaces, watch_version, sender_event>>
    /\ UNCHANGED <<storeVars, codecVars, routingVars, accelVars, ingressVars>>
    /\ UNCHANGED <<serverVars, runVars, readerVars, socketVars, leaseVars>>

\* The sender task of the k-th interface takes one TxPayload from the queue. `now` is
\* the Instant::now() of the deadline test, tried at the deadline of the payloads and
\* just after it; `result` is the outcome of send_to.
SenderTask(k) ==
    /\ network_interfaces[k].sender_queue # << >>
    /\ \E now \in {send_deadline, send_deadline + 1} :
          LET tx_payload == Head(network_interfaces[k].sender_queue)
          IN IF tx_payload.deadline.some /\ tx_payload.deadline.value < now
             THEN /\ network_interfaces' = [network_interfaces EXCEPT ![k].sender_queue = Tail(@)]
                  /\ sender_event' = [name |-> "INTERFACE_SEND_DEADLINE_MISSED", instant |-> now]
             ELSE \E result \in {"sent", "incomplete", "failed", "timeout"} :
                     /\ result # "sent" => network_interfaces[k].consecutive_failures < MaxFailures
                     /\ network_interfaces' =
                            [network_interfaces EXCEPT
                                ![k].sender_queue = Tail(@),
                                ![k].consecutive_failures = after_send(@, result)]
                     /\ sender_event' = [name |-> send_event(result), instant |-> now]
    /\ UNCHANGED <<datalink, watch_interfaces, watch_version>>
    /\ UNCHANGED <<storeVars, codecVars, routingVars, accelVars, ingressVars>>
    /\ UNCHANGED <<serverVars, runVars, readerVars, socketVars, leaseVars>>

\* The receiver task of the k-th interface: a datagram read from the socket, here the
\* answer of the rendezvous server, is forwarded to the rx processor.
ReceiverTask(k) ==
    /\ rx = << >>
    /\ rx' = mpsc_send(rx, recv_from(Datagram(warp_map_address, network_interfaces[k].id,
                                              <<Sealed(RegisterResponse(NatAddress),
                                                       RandomNonce(43), warp_map_cipher)>>,
                                              << >>)))
    /\ UNCHANGED <<interfaces, consecutive_failures, send_queue, peer_addresses, address_overrides,
                   mapping_pc>>
    /\ UNCHANGED <<storeVars, codecVars, accelVars, ingressVars, instanceVars>>
    /\ UNCHANGED <<serverVars, runVars, readerVars, socketVars, leaseVars>>

\* The routing state is not in use.
RoutingIdle ==
    /\ interfaces = << >>
    /\ consecutive_failures = [i \in Range(InterfaceNames) |-> 0]
    /\ send_queue = [i \in Range(InterfaceNames) |-> << >>]
    /\ peer_addresses = << >>
    /\ address_overrides = EmptyMap
    /\ mapping_pc = NotInMapping
    /\ rx = << >>

\* The inbound data path is not in use.
IngressIdle ==
    /\ routing_call = NoResolve
    /\ rx_current = NoMessage
    /\ rx_task = "idle"
    /\ external_address = [i \in Range(InterfaceNames) |-> None]
    /\ application_inbound_channel = [t \in Tunnels |-> << >>]
    /\ application_socket = [t \in Tunnels |-> None]

\* ------------------------------------------------------------------------
\* The rendezvous server: WarpMapServer::run spawns one task per datagram, the
\* task runs process_rx_buffer and sends the response
\* ------------------------------------------------------------------------
\* Number of datagrams the server receives in a run.
MaxServerDatagrams == 2

\* The SocketAddr of the address the ClientStore knows as `address`.
ClientAddress(address) == SocketAddrV4(10, 0, 0, address, 13116)

\* cipher_from_shared_secret(private_key, client_key): one cipher per client key.
cipher_from_shared_secret(client_key) == client_key

\* SystemTime::duration_since(earlier) is Ok.
system_time_since(now, earlier) ==
    \/ earlier.secs < now.secs
    \/ earlier.secs = now.secs /\ earlier.nanos <= now.nanos

\* Mutation: a datagram of an unknown address without a pubkey is tried with key 1.
client_key_of_Default(self, from, associated_data) ==
    IF get_pubkey(self, from) # 0 THEN Ok(get_pubkey(self, from))
    ELSE LET aad == DecodeStruct(<<"pubkey">>, associated_data)
         IN IF aad.ok THEN Ok(aad.value.pubkey) ELSE Ok(1)

\* process_rx_buffer, client_key: the cached pubkey of the source address, or the
\* pubkey of the associated data (RegisterRequestAssociatedData) when there is none.
client_key_of(self, from, associated_data) ==
    IF get_pubkey(self, from) # 0 THEN Ok(get_pubkey(self, from))
    ELSE LET aad == DecodeStruct(<<"pubkey">>, associated_data)
         IN IF aad.ok THEN Ok(aad.value.pubkey) ELSE Err("aad")

NoResponse == [type |-> ""]

\* Mutation: the address of the client is taken out of the store.
unexpected_message_id_Deregister(self, from, client_key) ==
    [outcome |-> "error", store |-> deregister_client(self, client_key, from), response |-> NoResponse]

\* process_rx_buffer, the last arm of the match on the message id:
\* Err(UnexpectedMessageId(id)), for a DeregisterRequest as for any other id.
unexpected_message_id(self, from, client_key) ==
    [outcome |-> "error", store |-> self, response |-> NoResponse]

\* process_rx_buffer, the match on the message id, for the message of `from` that was
\* decrypted with the cipher of client_key: the ClientStore after it and the response,
\* or the error the `?` returns. register_client runs before the response is built.
process_message(self, from, client_key, decrypted, decoded, now, system_now, order) ==
    IF ~decrypted.ok THEN [outcome |-> "error", store |-> self, response |-> NoResponse]
    ELSE IF TypeOfId(decrypted.value.message_id) \notin {"RegisterRequest", "MappingRequest"}
    THEN unexpected_message_id(self, from, client_key)
    ELSE IF ~decoded.ok THEN [outcome |-> "error", store |-> self, response |-> NoResponse]
    ELSE IF decoded.value.type = "RegisterRequest"
    THEN [outcome |-> IF system_time_since(system_now, decoded.value.timestamp)
                      THEN "ok" ELSE "error",
          store |-> register_client(self, client_key, from, now),
          response |-> [type |-> "RegisterResponse",
                        address |-> ClientAddress(from),
                        timestamp |-> system_now,
                        request_timestamp |-> decoded.value.timestamp]]
    ELSE [outcome |-> IF system_time_since(system_now, decoded.value.timestamp)
                      THEN "ok" ELSE "error",
          store |-> self,
          response |->
              [type |-> "MappingResponse",
               peer_pubkey |-> decoded.value.peer_pubkey,
               endpoints |->
                   LET addresses == get_addresses(self, decoded.value.peer_pubkey, now, order)
                   IN [i \in 1..Len(addresses) |-> ClientAddress(addresses[i])],
               timestamp |-> system_now]]

\* The task spawned for a datagram of `from`. cached tells which arm of the match on
\* get_pubkey gave client_key.
ServerTask(from, buf) ==
    [pc |-> "parse", from |-> from, buf |-> buf, remaining_buf |-> buf,
     response_bytes |-> << >>, msg |-> NoWireMessage, rest |-> << >>, client_key |-> 0,
     cached |-> FALSE]

\* No resolve_peer_addresses call is under way.
ReaderInit == reader_guard = NoGuard

\* The server has just started: its clock reads 0 and it has registered nobody.
LeaseInit ==
    /\ server_clock = 0
    /\ last_register = [a \in Addresses |-> None]

\* Time passes on the server.
ClockTick ==
    /\ server_clock < MaxTime
    /\ server_clock' = server_clock + 1
    /\ UNCHANGED last_register
    /\ UNCHANGED <<storeVars, codecVars, routingVars, accelVars, ingressVars, instanceVars>>
    /\ UNCHANGED <<serverVars, runVars, readerVars, socketVars>>

\* process_rx_buffer, RegisterRequest branch: register_client under the write lock,
\* with the Instant::now() read under the lock.
TimedRegisterClient ==
    \E pubkey \in Pubkeys, address \in Addresses :
        /\ op = NoCall
        /\ SetStore(register_client(Store, pubkey, address, server_clock))
        /\ op' = [NoCall EXCEPT !.name = "register_client", !.pubkey = pubkey, !.address = address,
                                !.now = server_clock, !.old_pubkey = get_pubkey(Store, address)]
        /\ last_register' = [last_register EXCEPT ![address] = Some([pubkey |-> pubkey, at |-> server_clock])]
        /\ UNCHANGED server_clock
        /\ UNCHANGED <<codecVars, routingVars, accelVars, ingressVars, instanceVars>>
        /\ UNCHANGED <<serverVars, runVars, readerVars, socketVars>>

\* process_rx_buffer, MappingRequest branch: get_addresses under the read lock, with
\* the Instant::now() read under the lock.
TimedGetAddresses ==
    \E pubkey \in Pubkeys :
      \E order \in IterationOrders(IF pubkey \in DOMAIN pubkey_to_addresses
                                   THEN pubkey_to_addresses[pubkey] ELSE {}) :
        /\ op = NoCall
        /\ op' = [NoCall EXCEPT !.name = "get_addresses", !.pubkey = pubkey, !.now = server_clock,
                                !.addresses = get_addresses(Store, pubkey, server_clock, order)]
        /\ UNCHANGED <<client_expiry, pubkey_to_addresses, address_to_pubkey, address_last_seen>>
        /\ UNCHANGED leaseVars
        /\ UNCHANGED <<codecVars, routingVars, accelVars, ingressVars, instanceVars>>
        /\ UNCHANGED <<serverVars, runVars, readerVars, socketVars>>

\* The garbage collector task of the server: garbage_collect(Instant::now()) under the
\* write lock.
TimedGarbageCollect ==
    \E order \in IterationOrders(DOMAIN address_last_seen) :
        /\ op = NoCall
        /\ SetStore(garbage_collect(Store, server_clock, order))
        /\ op' = [NoCall EXCEPT !.name = "garbage_collect", !.now = server_clock,
                                !.expired_addresses = gc_result(Store, server_clock, order).expired_addresses,
                                !.expired_pubkeys = gc_result(Store, server_clock, order).expired_pubkeys]
        /\ UNCHANGED leaseVars
        /\ UNCHANGED <<codecVars, routingVars, accelVars, ingressVars, instanceVars>>
        /\ UNCHANGED <<serverVars, runVars, readerVars, socketVars>>

\* The gates as Gate::new leaves them when gate_to_application is the port configured
\* for the tunnel (None: not configured): nothing received, nothing sent.
GateSockets(gate_to_application) ==
    /\ fixed_destination =
           [t \in Tunnels |-> create_socket(gate_to_application[t]).fixed_destination]
    /\ current_destination =
           [t \in Tunnels |-> create_socket(gate_to_application[t]).current_destination]
    /\ application_from = [t \in Tunnels |-> None]
    /\ application_destination = [t \in Tunnels |-> None]

\* Every gate has gate_to_application configured.
SocketInit == GateSockets([t \in Tunnels |-> Some(5000 + t.id)])

\* The gate of tunnel 5 has gate_to_application configured, the gate of tunnel 6 not.
LoopbackInit == GateSockets([t \in Tunnels |-> IF t = TunnelIdId(5) THEN Some(5005) ELSE None])

ServerInit == server_tasks = << >>

\* The server is not followed.
ServerIdle == ServerInit

\* The run loop is not followed.
RunIdle == run_pc = "select"

\* socket.recv_from of WarpMapServer::run and the spawn of the task.
ServerReceive(from, buf) ==
    /\ Len(server_tasks) < MaxServerDatagrams
    /\ server_tasks' = Append(server_tasks, ServerTask(from, buf))
    /\ UNCHANGED <<storeVars, codecVars, routingVars, accelVars, ingressVars, instanceVars>>
    /\ UNCHANGED <<runVars, readerVars, socketVars, leaseVars>>

\* process_rx_buffer, first half of an iteration: from_slice and, under the read
\* lock, the key of the client.
ServerParse(k) ==
    /\ server_tasks[k].pc = "parse"
    /\ \E parsed \in {from_slice(server_tasks[k].remaining_buf)} :
          \E key \in {IF parsed.ok
                      THEN client_key_of(Store, server_tasks[k].from,
                                         parsed.value.associated_data)
                      ELSE Pending} :
             server_tasks' =
                 [server_tasks EXCEPT ![k] =
                     IF key.ok
                     THEN [@ EXCEPT !.pc = "handle", !.msg = parsed.value,
                                    !.rest = parsed.rest, !.client_key = key.value,
                                    !.cached = get_pubkey(Store, server_tasks[k].from) # 0]
                     ELSE [@ EXCEPT !.pc = "error"]]
    /\ UNCHANGED <<storeVars, codecVars, routingVars, accelVars, ingressVars, instanceVars>>
    /\ UNCHANGED <<runVars, readerVars, socketVars, leaseVars>>

\* process_rx_buffer, second half of an iteration: decrypt, the branch of the message
\* id with its call of the ClientStore, the response appended to response_bytes, and
\* the end of the loop; Ok(response_bytes) is sent to the source address.
\* `now` is Instant::now(), `system_now` SystemTime::now().
ServerHandle(k) ==
    /\ server_tasks[k].pc = "handle"
    /\ op = NoCall
    /\ \E decrypted \in {decrypt(server_tasks[k].msg,
                                  cipher_from_shared_secret(server_tasks[k].client_key))} :
        \E decoded \in {IF /\ decrypted.ok
                           /\ TypeOfId(decrypted.value.message_id)
                                  \in {"RegisterRequest", "MappingRequest"}
                        THEN decode(decrypted.value, TypeOfId(decrypted.value.message_id))
                        ELSE Pending} :
          \E now \in Instants, system_now \in {SystemTime(1, 0)},
             order \in IterationOrders(Addresses) :
          \E branch \in {process_message(Store, server_tasks[k].from,
                                         server_tasks[k].client_key, decrypted, decoded,
                                         now, system_now, order)} :
             /\ SetStore(branch.store)
             /\ server_tasks' =
                    [server_tasks EXCEPT ![k] =
                        IF branch.outcome = "error"
                        THEN [@ EXCEPT !.pc = "error"]
                        ELSE [@ EXCEPT
                                 !.pc = IF server_tasks[k].rest = << >>
                                        THEN "sent" ELSE "parse",
                                 !.remaining_buf = server_tasks[k].rest,
                                 !.response_bytes =
                                     @ \o wire_bytes(branch.response, RandomNonce(51),
                                                     cipher_from_shared_secret(
                                                         server_tasks[k].client_key))]]
    /\ UNCHANGED op
    /\ UNCHANGED <<codecVars, routingVars, accelVars, ingressVars, instanceVars>>
    /\ UNCHANGED <<runVars, readerVars, socketVars, leaseVars>>

vars == <<storeVars, codecVars, routingVars, accelVars, ingressVars, instanceVars,
          serverVars, runVars, readerVars, socketVars, leaseVars>>

Init == StoreInit /\ CodecIdle /\ RoutingIdle /\ AccelIdle /\ IngressIdle /\ InstanceIdle
            /\ ServerIdle /\ RunIdle /\ ReaderInit /\ SocketInit /\ LeaseInit

Next ==
    \/ RegisterClient
    \/ DeregisterClient
    \/ GetAddresses
    \/ GetPubkey
    \/ GarbageCollect
    \/ Return

Spec == Init /\ [][Next]_vars

\* The store is not in use.
StoreIdle ==
    /\ client_expiry = 0
    /\ pubkey_to_addresses = EmptyMap
    /\ address_to_pubkey = EmptyMap
    /\ address_last_seen = EmptyMap
    /\ op = NoCall

InitCodec == CodecInit /\ StoreIdle /\ RoutingIdle /\ AccelIdle /\ IngressIdle /\ InstanceIdle
            /\ ServerIdle /\ RunIdle /\ ReaderInit /\ SocketInit /\ LeaseInit

NextCodec ==
    \/ CodecSend
    \/ CodecReceive
    \/ CodecFromSlice
    \/ CodecDecrypt
    \/ CodecDecode
    \/ CodecContinue

SpecCodec == InitCodec /\ [][NextCodec]_vars

InitAccel == RoutingInit /\ AccelInit /\ IngressInit /\ StoreIdle /\ CodecIdle /\ InstanceIdle
            /\ ServerIdle /\ RunIdle /\ ReaderInit /\ SocketInit /\ LeaseInit

NextAccel ==
    \/ InterfaceScan
    \/ RxDecode
    \/ MappingReplacePeers
    \/ MappingPruneOverrides
    \/ HandlePeerAddressOverride
    \/ \E k \in 1..Len(ApplicationDatagrams) :
           /\ k = datagrams_received(tracer_generator, Tunnels) + 1
           /\ GateListener(ApplicationDatagrams[k].tunnel_id, LoopbackAddress(6001),
                           ApplicationDatagrams[k].data, k - 1)
    \/ AccelRecv
    \/ AccelFilter
    \/ AccelEnqueue
    \/ AccelNotify
    \/ InterfaceSender

SpecAccel == InitAccel /\ [][NextAccel]_vars

InitRx == RxInit /\ IngressInit /\ AccelIdle /\ StoreIdle /\ CodecIdle /\ InstanceIdle
            /\ ServerIdle /\ RunIdle /\ ReaderInit /\ SocketInit /\ LeaseInit

NextRx ==
    \/ \E payload \in RxSamples : InterfaceReceive(payload)
    \/ RxDecode
    \/ RxRegisterResponse
    \/ MappingReplacePeers
    \/ MappingPruneOverrides
    \/ HandlePeerAddressOverride
    \/ RxTunnelPayload
    \/ RxIgnore
    \/ RxPanic
    \/ \E tunnel_id \in Tunnels : GateApplicationSender(tunnel_id)

SpecRx == InitRx /\ [][NextRx]_vars

NextRouting ==
    \/ \E payload \in RoutingRxSamples : InterfaceReceive(payload)
    \/ RxDecode
    \/ MappingReplacePeers
    \/ MappingPruneOverrides
    \/ HandlePeerAddressOverride
    \/ \E name \in Range(InterfaceNames) : ResolveBorrowPeers(name)
    \/ \E name \in Range(InterfaceNames) : ResolvePeerAddresses(name)
    \/ ResolveReturn

SpecRouting == InitRx /\ [][NextRouting]_vars

\* The datagrams of the scenario of the external addresses: a RegisterResponse with one
\* of two addresses, received on either interface from the rendezvous; a datagram with
\* two of them; and one that a peer sends under the cipher of the rendezvous.
ExternalRxSamples ==
    {recv_from(Datagram(sample[1], sample[2], sample[3], << >>)) :
        sample \in
            {<<warp_map_address, name,
               <<Sealed(RegisterResponse(address), RandomNonce(27), warp_map_cipher)>> >> :
                name \in Range(InterfaceNames), address \in {NatAddress, PeerAddressB}}
            \cup {<<warp_map_address, "eth0",
                     <<Sealed(RegisterResponse(PeerAddressA), RandomNonce(28), warp_map_cipher),
                       Sealed(RegisterResponse(NatAddress), RandomNonce(29), warp_map_cipher)>> >>,
                   <<PeerAddressA, "wlan0",
                     <<Sealed(RegisterResponse(PeerAddressA), RandomNonce(28), warp_map_cipher)>> >>}}

NextExternal ==
    \/ InterfaceScan
    \/ \E payload \in ExternalRxSamples : InterfaceReceive(payload)
    \/ RxDecode
    \/ RxRegisterResponse
    \/ RxIgnore

SpecExternal == InitRx /\ [][NextExternal]_vars

InitInterface ==
    InstanceInit /\ RoutingIdle /\ IngressIdle /\ AccelIdle /\ StoreIdle /\ CodecIdle
        /\ ServerIdle /\ RunIdle /\ ReaderInit /\ SocketInit /\ LeaseInit

NextInterface ==
    \/ \E name \in Range(InterfaceNames), status \in {"absent", "up", "unbindable"} :
           DatalinkChange(name, status)
    \/ ScanInterfaces
    \/ \E k \in 1..Len(network_interfaces) : RegistrationTask(k)
    \/ \E k \in 1..Len(network_interfaces) : QueueSend(k, <<7>>, Some(send_deadline))
    \/ \E k \in 1..Len(network_interfaces) : SenderTask(k)
    \/ \E k \in 1..Len(network_interfaces) : ReceiverTask(k)

SpecInterface == InitInterface /\ [][NextInterface]_vars

\* The tunnel payloads the peer sends for the gates: two payloads of tunnel 5 that
\* differ in tracer and data, and one of tunnel 6.
GateRxSamples ==
    {recv_from(Datagram(PeerAddressA, "eth0",
                        <<Sealed(TunnelPayload_new(sample[1], sample[2], <<sample[2]>>),
                                 RandomNonce(23), peer_cipher)>>,
                        << >>)) :
        sample \in {<<TunnelIdId(5), 1>>, <<TunnelIdId(5), 2>>, <<TunnelIdId(6), 1>>}}

\* The gates at work in both directions: the applications hand datagrams to the
\* listener tasks, the peer sends tunnel payloads the rx processor dispatches.
InitGate == RxInit /\ IngressInit /\ AccelInit /\ StoreIdle /\ CodecIdle /\ InstanceIdle
            /\ ServerIdle /\ RunIdle /\ ReaderInit /\ SocketInit /\ LeaseInit

NextGate ==
    \/ \E tunnel_id \in Tunnels, data \in {<<7>>, <<8, 9>>} :
           /\ tracer_generator[tunnel_id] < MaxDatagrams
           /\ GateListener(tunnel_id, LoopbackAddress(6001), data, 0)
    \/ \E payload \in GateRxSamples : InterfaceReceive(payload)
    \/ RxDecode
    \/ RxTunnelPayload
    \/ \E tunnel_id \in Tunnels : GateApplicationSender(tunnel_id)

SpecGate == InitGate /\ [][NextGate]_vars

\* The gates with their loopback sockets: the applications send from two ports, the
\* peer sends tunnel payloads for both gates.
InitLoopback == RxInit /\ IngressInit /\ AccelInit /\ StoreIdle /\ CodecIdle /\ InstanceIdle
            /\ ServerIdle /\ RunIdle /\ ReaderInit /\ LoopbackInit /\ LeaseInit

NextLoopback ==
    \/ \E tunnel_id \in Tunnels, port \in {6001, 6002} :
           /\ tracer_generator[tunnel_id] < MaxDatagrams
           /\ GateListener(tunnel_id, LoopbackAddress(port), <<7>>, 0)
    \/ \E payload \in GateRxSamples : InterfaceReceive(payload)
    \/ RxDecode
    \/ RxTunnelPayload
    \/ \E tunnel_id \in Tunnels : GateApplicationSender(tunnel_id)

SpecLoopback == InitLoopback /\ [][NextLoopback]_vars

RegisterRequest(pubkey, timestamp) ==
    [type |-> "RegisterRequest", pubkey |-> pubkey, timestamp |-> timestamp]

MappingRequest(peer_pubkey, timestamp) ==
    [type |-> "MappingRequest", peer_pubkey |-> peer_pubkey, timestamp |-> timestamp]

DeregisterRequest(pubkey, timestamp) ==
    [type |-> "DeregisterRequest", pubkey |-> pubkey, timestamp |-> timestamp]

\* The datagrams the clients with the keys 1 and 2 send to the server, each with the
\* messages it carries, the key whose cipher they are sealed with, and the bytes that
\* follow them: the registration datagram, the requests alone and in the other order,
\* a DeregisterRequest, requests with a timestamp ahead of the clock of the server
\* (SystemTime(2, 0)), a request sealed with the cipher of the other client, and
\* datagrams that end in bytes that are no WireMessage.
ServerSamples ==
    LET now == SystemTime(1, 0)
        ahead == SystemTime(2, 0)
        contents ==
            {<< <<RegisterRequest(1, now)>>, 1, << >> >>,
             << <<RegisterRequest(2, now)>>, 2, << >> >>,
             << <<RegisterRequest(1, now), MappingRequest(2, now)>>, 1, << >> >>,
             << <<RegisterRequest(2, now), MappingRequest(2, now)>>, 2, << >> >>,
             << <<MappingRequest(2, now)>>, 1, << >> >>,
             << <<MappingRequest(2, now), RegisterRequest(1, now)>>, 1, << >> >>,
             << <<DeregisterRequest(1, now)>>, 1, << >> >>,
             << <<RegisterRequest(1, ahead)>>, 1, << >> >>,
             << <<RegisterRequest(1, now), MappingRequest(2, ahead)>>, 1, << >> >>,
             << <<RegisterRequest(1, now)>>, 2, << >> >>,
             << <<RegisterRequest(1, now)>>, 1, <<1, 2, 3>> >>,
             << << >>, 1, <<1, 2, 3>> >>}
    IN {[from |-> from,
         buf |-> datagram_bytes([i \in 1..Len(content[1]) |->
                                    Sealed(content[1][i], RandomNonce(60 + i),
                                           cipher_from_shared_secret(content[2]))])
                     \o content[3]] :
           from \in {1, 2}, content \in contents}

InitServer == StoreInit /\ ServerInit /\ RunIdle /\ ReaderInit /\ SocketInit /\ LeaseInit /\ CodecIdle /\ RoutingIdle
              /\ AccelIdle /\ IngressIdle /\ InstanceIdle

NextServer ==
    \/ \E sample \in ServerSamples : ServerReceive(sample.from, sample.buf)
    \/ \E k \in 1..Len(server_tasks) : ServerParse(k)
    \/ \E k \in 1..Len(server_tasks) : ServerHandle(k)

SpecServer == InitServer /\ [][NextServer]_vars

\* The store of the server under the server's clock.
NextLease ==
    \/ ClockTick
    \/ TimedRegisterClient
    \/ TimedGetAddresses
    \/ TimedGarbageCollect
    \/ Return

SpecLease == Init /\ [][NextLease]_vars

\* WarpCore::run, shutdown branch: the DeregisterRequest of this client, encoded,
\* encrypted with the cipher of the rendezvous and serialised.
deregister_payload ==
    wire_bytes(DeregisterRequest(1, SystemTime(1, 0)), RandomNonce(44), warp_map_cipher)

\* Mutation: only the interfaces that are alive are told to deregister.
deregister_interfaces_Alive(published, objects) ==
    {k \in Range(published) : is_alive(objects[k].consecutive_failures)}

\* routing_state.interfaces() at shutdown: the interfaces of the published list.
deregister_interfaces(published, objects) == Range(published)

\* WarpCore::run: the select takes the shutdown signal, and the loop over the
\* published interfaces queues the DeregisterRequest on each of them.
RunShutdown ==
    /\ run_pc = "select"
    /\ network_interfaces' =
           [k \in DOMAIN network_interfaces |->
               IF k \in deregister_interfaces(watch_interfaces, network_interfaces)
               THEN [network_interfaces[k] EXCEPT !.sender_queue =
                        queue_send(@, deregister_payload, warp_map_address, None)]
               ELSE network_interfaces[k]]
    /\ run_pc' = "shutdown"
    /\ UNCHANGED <<datalink, watch_interfaces, watch_version, sender_event>>
    /\ UNCHANGED <<storeVars, codecVars, routingVars, accelVars, ingressVars>>
    /\ UNCHANGED <<serverVars, readerVars, socketVars, leaseVars>>

\* WarpCore::run: the sleep of 100 ms is over and run returns.
RunReturn ==
    /\ run_pc = "shutdown"
    /\ run_pc' = "returned"
    /\ UNCHANGED <<storeVars, codecVars, routingVars, accelVars, ingressVars, instanceVars>>
    /\ UNCHANGED <<serverVars, readerVars, socketVars, leaseVars>>

\* The run loop with the scan task and the registration and sender tasks of the
\* interfaces, which stop with the process when run has returned.
NextRun ==
    \/ RunShutdown
    \/ RunReturn
    \/ /\ run_pc # "returned"
       /\ \/ \E name \in Range(InterfaceNames), status \in {"absent", "up"} :
                DatalinkChange(name, status)
          \/ ScanInterfaces
          \/ \E k \in 1..Len(network_interfaces) : RegistrationTask(k)
          \/ \E k \in 1..Len(network_interfaces) : SenderTask(k)

SpecRun == InitInterface /\ [][NextRun]_vars

\* ------------------------------------------------------------------------
\* Properties of the ClientStore
\* ------------------------------------------------------------------------
AllRegisteredAddresses == UNION {pubkey_to_addresses[p] : p \in DOMAIN pubkey_to_addresses}

\* The addresses of pubkey p that are fresh at time t.
FreshAddresses(p, t) ==
    IF p \in DOMAIN pubkey_to_addresses
    THEN {a \in pubkey_to_addresses[p] :
             a \in DOMAIN address_last_seen /\ duration_since(t, address_last_seen[a]) < client_expiry}
    ELSE {}

\* C1: after any sequence of register_client, deregister_client and garbage_collect
\* calls, the union of the per-pubkey address sets, the keys of address_to_pubkey and
\* the keys of address_last_seen are the same set.
C1_KeySetsAgree ==
    /\ AllRegisteredAddresses = DOMAIN address_to_pubkey
    /\ DOMAIN address_to_pubkey = DOMAIN address_last_seen

\* A deregistration removed one address and left another one registered.
C1_Witness ==
    /\ op.name = "deregister_client"
    /\ op.removed
    /\ DOMAIN address_last_seen # {}

\* C2: an address is in the set of pubkey p exactly when address_to_pubkey maps it to
\* p, so no address is in the sets of two pubkeys.
C2_AddressHasOnePubkey ==
    /\ \A p \in Pubkeys, a \in Addresses :
          (p \in DOMAIN pubkey_to_addresses /\ a \in pubkey_to_addresses[p])
              <=> (a \in DOMAIN address_to_pubkey /\ address_to_pubkey[a] = p)
    /\ \A p, q \in DOMAIN pubkey_to_addresses :
          p # q => pubkey_to_addresses[p] \cap pubkey_to_addresses[q] = {}

\* An address moved from one pubkey to another that both still hold addresses.
C2_Witness ==
    /\ op.name = "register_client"
    /\ op.old_pubkey \notin {0, op.pubkey}
    /\ op.old_pubkey \in DOMAIN pubkey_to_addresses
    /\ op.pubkey \in DOMAIN pubkey_to_addresses

\* C3: get_addresses(p, t) returns exactly the addresses of p whose age t - last_seen
\* is strictly below the expiry (age = expiry is excluded), without duplicates, the
\* empty list for an unknown pubkey, and leaves the store as it was.
C3_GetAddressesStrict ==
    [][op'.name = "get_addresses" =>
          /\ UNCHANGED <<client_expiry, pubkey_to_addresses, address_to_pubkey, address_last_seen>>
          /\ Range(op'.addresses) = FreshAddresses(op'.pubkey, op'.now)
          /\ Len(op'.addresses) = Cardinality(FreshAddresses(op'.pubkey, op'.now))
          /\ \A a \in Range(op'.addresses) :
                duration_since(op'.now, address_last_seen[a]) # client_expiry
          /\ (op'.pubkey \notin DOMAIN pubkey_to_addresses => op'.addresses = << >>)]_vars

\* A call that filtered out an address aged exactly expiry and returned one aged
\* one unit less.
C3_Witness ==
    /\ op.name = "get_addresses"
    /\ client_expiry >= 1
    /\ op.pubkey \in DOMAIN pubkey_to_addresses
    /\ \E a \in pubkey_to_addresses[op.pubkey] :
          /\ op.now - address_last_seen[a] = client_expiry
          /\ a \notin Range(op.addresses)
    /\ \E a \in Range(op.addresses) : op.now - address_last_seen[a] = client_expiry - 1

\* C4: after garbage_collect(t) every remaining address is younger than the expiry,
\* and every address that was younger than the expiry before the call is still there
\* with the same pubkey and last_seen.
C4_GarbageCollectEvictsExpiredOnly ==
    [][op'.name = "garbage_collect" =>
          /\ \A a \in DOMAIN address_last_seen' :
                duration_since(op'.now, address_last_seen'[a]) < client_expiry'
          /\ \A a \in DOMAIN address_last_seen :
                duration_since(op'.now, address_last_seen[a]) < client_expiry =>
                    /\ a \in DOMAIN address_last_seen'
                    /\ address_last_seen'[a] = address_last_seen[a]
                    /\ a \in DOMAIN address_to_pubkey'
                    /\ address_to_pubkey'[a] = address_to_pubkey[a]
                    /\ address_to_pubkey[a] \in DOMAIN pubkey_to_addresses'
                    /\ a \in pubkey_to_addresses'[address_to_pubkey[a]]]_vars

\* A collection that evicted some addresses and kept others.
C4_Witness ==
    /\ op.name = "garbage_collect"
    /\ op.expired_addresses >= 1
    /\ DOMAIN address_last_seen # {}

\* C5: registering address a, currently of pubkey p, under another pubkey p2 moves it:
\* afterwards a maps to p2 and is in p2's set, it is not in p's set, and p's entry
\* is gone when a was its only address.
C5_ReRegisterMovesAddress ==
    [][\A p \in Pubkeys :
          (/\ op'.name = "register_client"
           /\ op'.address \in DOMAIN address_to_pubkey
           /\ address_to_pubkey[op'.address] = p
           /\ op'.pubkey # p) =>
              /\ op'.address \in DOMAIN address_to_pubkey'
              /\ address_to_pubkey'[op'.address] = op'.pubkey
              /\ op'.pubkey \in DOMAIN pubkey_to_addresses'
              /\ op'.address \in pubkey_to_addresses'[op'.pubkey]
              /\ (p \in DOMAIN pubkey_to_addresses' => op'.address \notin pubkey_to_addresses'[p])
              /\ (pubkey_to_addresses[p] = {op'.address} => p \notin DOMAIN pubkey_to_addresses')
              /\ (pubkey_to_addresses[p] # {op'.address} => p \in DOMAIN pubkey_to_addresses')]_vars

\* An address was taken from a pubkey that had no other address.
C5_Witness ==
    /\ op.name = "register_client"
    /\ op.old_pubkey \notin {0, op.pubkey}
    /\ op.old_pubkey \notin DOMAIN pubkey_to_addresses

\* C6: deregister(p, a) returns true and removes a from all three maps when a is in
\* p's own set; otherwise (a unknown, or registered under another pubkey) it returns
\* false and leaves all three maps unchanged.
C6_DeregisterOnlyOwnAddress ==
    [][op'.name = "deregister_client" =>
          IF op'.pubkey \in DOMAIN pubkey_to_addresses /\ op'.address \in pubkey_to_addresses[op'.pubkey]
          THEN /\ op'.removed
               /\ op'.address \notin DOMAIN address_to_pubkey'
               /\ op'.address \notin DOMAIN address_last_seen'
               /\ \A q \in DOMAIN pubkey_to_addresses' : op'.address \notin pubkey_to_addresses'[q]
          ELSE /\ ~op'.removed
               /\ UNCHANGED <<client_expiry, pubkey_to_addresses, address_to_pubkey,
                              address_last_seen>>]_vars

\* A deregistration under the wrong pubkey of an address that is registered.
C6_Witness ==
    /\ op.name = "deregister_client"
    /\ ~op.removed
    /\ op.old_pubkey \notin {0, op.pubkey}
    /\ op.address \in DOMAIN address_to_pubkey

\* ------------------------------------------------------------------------
\* Properties of the wire codec
\* ------------------------------------------------------------------------
\* C7: with the same cipher on both sides, every message that was encoded, encrypted,
\* serialised, parsed and decrypted decodes, as its own type, to a message equal to
\* the original in every field; the nonce-source field (tracer) is on the wire as the
\* low eight bytes of the nonce, little endian, and is recovered from them.
C7_RoundTrip ==
    (tx_cipher = rx_cipher /\ codec_pc = "next") =>
        /\ rx_decrypted.ok
        /\ rx_decrypted.value.message_id = MESSAGE_ID(tx_messages[rx_index].type)
        /\ (rx_type = tx_messages[rx_index].type => rx_decoded = Ok(tx_messages[rx_index]))
        /\ (tx_messages[rx_index].type = "TunnelPayload" =>
               /\ Len(rx_wire.nonce) = NONCE_SIZE
               /\ from_le_bytes(Take(rx_wire.nonce, 8)) = tx_messages[rx_index].tracer)

\* A TunnelPayload with a multi-byte tracer came back through the codec.
C7_Witness ==
    /\ tx_cipher = rx_cipher
    /\ codec_pc = "next"
    /\ rx_type = "TunnelPayload"
    /\ rx_decoded.ok
    /\ rx_decoded.value.tracer = 305419896
    /\ rx_decoded.value = tx_messages[rx_index]

\* C8: a WireMessage encrypted under one cipher and decrypted with a different one
\* gives the Decryption error and is never decoded.
C8_WrongCipherFails ==
    tx_cipher # rx_cipher =>
        /\ codec_pc # "decode"
        /\ codec_pc = "next" => rx_decrypted = Err("Decryption")
        /\ ~rx_decoded.ok

\* A message was decrypted with the wrong cipher.
C8_Witness ==
    /\ tx_cipher # rx_cipher
    /\ codec_pc = "next"
    /\ rx_decrypted = Err("Decryption")

\* C9: parsing the concatenated bytes of the stacked WireMessages with repeated
\* from_slice yields those messages one by one in order, and the remainder is empty
\* exactly after the last one.
C9_StackedParsing ==
    /\ codec_pc # "failed"
    /\ codec_pc \in {"decrypt", "decode", "next", "done"} =>
          /\ rx_index \in 1..Len(tx_wire)
          /\ rx_wire = tx_wire[rx_index]
          /\ (remaining_buf = << >>) <=> (rx_index = Len(tx_wire))
    /\ codec_pc = "done" => rx_index = Len(tx_wire) /\ remaining_buf = << >>

\* Two stacked messages were parsed and nothing remained.
C9_Witness ==
    /\ codec_pc = "done"
    /\ Len(tx_wire) = 2
    /\ rx_index = 2
    /\ rx_wire = tx_wire[2]
    /\ remaining_buf = << >>

\* ------------------------------------------------------------------------
\* Properties of the outbound fan-out
\* ------------------------------------------------------------------------
\* The TxPayloads one pass of the accelerator's inner loop puts on the queue of
\* interface i: one per element of the peer list, in order, each address replaced
\* by its override for i when there is one.
ExpectedTxPayloads(i) ==
    [k \in 1..Len(peer_addresses) |->
        [to |-> IF <<i, peer_addresses[k]>> \in DOMAIN address_overrides
                THEN address_overrides[<<i, peer_addresses[k]>>]
                ELSE peer_addresses[k],
         deadline |-> [some |-> TRUE, value |-> acc_outbound.deadline],
         data |-> acc_data]]

\* C10: for each outbound tunnel payload the accelerator encrypts once (the bytes are
\* the wire form of the payload under the peer cipher and stay the same for the whole
\* fan-out), visits every interface of the borrowed list once, and for an interface
\* whose is_alive() test succeeds appends to its queue one entry per element of
\* resolve_peer_addresses(interface name), in order, with these bytes and the deadline
\* of the payload; an interface whose test fails gets nothing, and nothing else is
\* ever appended to a queue.
C10_FanOut ==
    [][/\ (acc_pc = "recv" /\ acc_pc' = "filter") =>
             /\ outbound_tunnel_payloads # << >>
             /\ acc_outbound' = Head(outbound_tunnel_payloads)
             /\ acc_index' = 1
             /\ send_queue' = send_queue
             /\ LET parsed == from_slice(acc_data')
                IN /\ parsed.ok
                   /\ parsed.rest = << >>
                   /\ decrypt(parsed.value, peer_cipher).ok
                   /\ decode(decrypt(parsed.value, peer_cipher).value, "TunnelPayload")
                          = Ok(acc_outbound'.tunnel_payload)
       /\ (acc_pc \in {"filter", "enqueue"}) =>
             /\ acc_data' = acc_data
             /\ acc_outbound' = acc_outbound
             /\ interfaces' = interfaces
       /\ (acc_pc = "filter" /\ acc_pc' = "enqueue") =>
             /\ acc_index \in 1..Len(interfaces)
             /\ consecutive_failures[interfaces[acc_index]] < max_consecutive_failures
             /\ acc_index' = acc_index
             /\ send_queue' = send_queue
       /\ (acc_pc = "filter" /\ acc_pc' = "filter" /\ acc_index' # acc_index) =>
             /\ acc_index \in 1..Len(interfaces)
             /\ ~(consecutive_failures[interfaces[acc_index]] < max_consecutive_failures)
             /\ acc_index' = acc_index + 1
             /\ send_queue' = send_queue
       /\ (acc_pc = "filter" /\ acc_pc' = "notify") =>
             /\ acc_index = Len(interfaces) + 1
             /\ send_queue' = send_queue
       /\ (acc_pc = "enqueue" /\ acc_pc' = "filter") =>
             /\ acc_index \in 1..Len(interfaces)
             /\ acc_index' = acc_index + 1
             /\ send_queue'[interfaces[acc_index]] =
                    send_queue[interfaces[acc_index]] \o ExpectedTxPayloads(interfaces[acc_index])
             /\ \A j \in DOMAIN send_queue :
                    j # interfaces[acc_index] => send_queue'[j] = send_queue[j]
       /\ \A j \in DOMAIN send_queue :
             Len(send_queue'[j]) > Len(send_queue[j]) =>
                 /\ acc_pc = "enqueue"
                 /\ acc_pc' = "filter"
                 /\ j = interfaces[acc_index]]_vars

\* The second payload has been fanned out over the list eth0, wlan0: eth0 was alive
\* and got one entry for the overridden and one for the plain peer address, with the
\* bytes and the deadline of this payload; wlan0 was not alive and got nothing.
C10_Witness ==
    /\ acc_pc = "notify"
    /\ acc_outbound.tunnel_payload.tracer = 1
    /\ interfaces = <<"eth0", "wlan0">>
    /\ consecutive_failures["wlan0"] >= max_consecutive_failures
    /\ acc_log = << [tracer |-> 1, interface |-> "eth0", resolved_addr |-> NatAddress],
                    [tracer |-> 1, interface |-> "eth0", resolved_addr |-> PeerAddressB] >>
    /\ Len(send_queue["eth0"]) >= 2
    /\ SubSeq(send_queue["eth0"], Len(send_queue["eth0"]) - 1, Len(send_queue["eth0"])) =
           << TxPayload(NatAddress, Some(acc_outbound.deadline), acc_data),
              TxPayload(PeerAddressB, Some(acc_outbound.deadline), acc_data) >>
    /\ \A k \in 1..Len(send_queue["wlan0"]) : send_queue["wlan0"][k].data # acc_data

\* ------------------------------------------------------------------------
\* Properties of the routing state
\* ------------------------------------------------------------------------
\* The address a peer address stands for on interface i under the override map
\* `overrides`: the target of the entry (i, a) when there is one, a itself otherwise.
OverrideOr(overrides, i, a) ==
    IF <<i, a>> \in DOMAIN overrides THEN overrides[<<i, a>>] ELSE a

\* The override entries whose reported address is not a current peer address.
StaleOverrides == {key \in DOMAIN address_overrides : key[2] \notin Range(peer_addresses)}

\* C11: resolve_peer_addresses(i) returns a list with the length and the order of
\* peer_addresses in which each peer address a is replaced by overrides[(i, a)] when
\* that entry exists and is a itself otherwise; the result is the same when the
\* entries whose reported address is not a current peer address are taken away.
C11_ResolveAppliesOverrides ==
    [][(routing_call = NoResolve /\ routing_call' # NoResolve) =>
          LET i == routing_call'.outbound_interface_name
              r == routing_call'.resolved_addresses
              live == [key \in DOMAIN address_overrides \ StaleOverrides |-> address_overrides[key]]
          IN /\ Len(r) = Len(peer_addresses)
             /\ \A k \in 1..Len(r) : r[k] = OverrideOr(address_overrides, i, peer_addresses[k])
             /\ \A k \in 1..Len(r) : r[k] = OverrideOr(live, i, peer_addresses[k])
             /\ UNCHANGED <<peer_addresses, address_overrides>>]_vars

\* resolve_peer_addresses("eth0") has returned two addresses, the first replaced by
\* its override and the second not, while the map also holds a stale entry for eth0.
C11_Witness ==
    /\ routing_call.outbound_interface_name = "eth0"
    /\ peer_addresses = <<PeerAddressB, PeerAddressA>>
    /\ <<"eth0", PeerAddressB>> \notin DOMAIN address_overrides
    /\ routing_call.resolved_addresses = <<PeerAddressB, NatAddress>>
    /\ \E key \in DOMAIN address_overrides : key[1] = "wlan0" /\ address_overrides[key] # key[2]

\* C12: handle_mapping_response(resp) sets peer_addresses to exactly resp.endpoints and
\* removes exactly the override entries whose reported address is not in
\* resp.endpoints; every other override is kept with its target unchanged.
C12_MappingResponseReplacesAndPrunes ==
    [][/\ (~mapping_pc.pruning /\ mapping_pc'.pruning) =>
             LET resp == decode(decrypt(from_slice(Head(rx).data).value, warp_map_cipher).value,
                                "MappingResponse").value
             IN /\ peer_addresses' = resp.endpoints
                /\ mapping_pc'.endpoints = resp.endpoints
                /\ address_overrides' = address_overrides
       /\ (mapping_pc.pruning /\ ~mapping_pc'.pruning) =>
             /\ peer_addresses' = peer_addresses
             /\ peer_addresses = mapping_pc.endpoints
             /\ DOMAIN address_overrides' =
                    {key \in DOMAIN address_overrides : key[2] \in Range(mapping_pc.endpoints)}
             /\ \A key \in DOMAIN address_overrides' :
                    address_overrides'[key] = address_overrides[key]
       /\ mapping_pc.pruning => mapping_pc'.pruning \/ mapping_pc' = NotInMapping]_vars

\* handle_mapping_response has replaced the peer list by <<PeerAddressB>> and is about
\* to prune a map that holds an override to keep and overrides to remove.
C12_Witness ==
    /\ mapping_pc.pruning
    /\ peer_addresses = <<PeerAddressB>>
    /\ \E key \in DOMAIN address_overrides : key[2] = PeerAddressB
    /\ \E key \in DOMAIN address_overrides : key[2] = PeerAddressA

\* C13: handle_peer_address_override(replace, from, i) sets overrides[(i, replace)] =
\* from, whatever it was before, and changes nothing else: the other entries and the
\* peer list stay, so resolve_peer_addresses(j) is unchanged for every j # i; overrides
\* for the same replace address on two interfaces make each interface resolve that
\* address to its own observed address.
C13_OverridesPerInterface ==
    [][(rx_current.outcome = "PeerAddressOverride" /\ rx_current'.outcome = "none") =>
          LET i == Head(rx).receiver_name
              replace == decode(decrypt(from_slice(Head(rx).data).value, peer_cipher).value,
                                "PeerAddressOverride").value.replace
          IN /\ DOMAIN address_overrides' = DOMAIN address_overrides \cup {<<i, replace>>}
             /\ address_overrides'[<<i, replace>>] = Head(rx).from
             /\ \A key \in DOMAIN address_overrides :
                    key # <<i, replace>> => address_overrides'[key] = address_overrides[key]
             /\ peer_addresses' = peer_addresses
             /\ \A j \in Range(InterfaceNames) \ {i} :
                    resolve_peer_addresses(peer_addresses', address_overrides', j)
                        = resolve_peer_addresses(peer_addresses, address_overrides, j)
             /\ \A j \in Range(InterfaceNames), k \in 1..Len(peer_addresses) :
                    <<j, peer_addresses[k]>> \in DOMAIN address_overrides' =>
                        resolve_peer_addresses(peer_addresses', address_overrides', j)[k]
                            = address_overrides'[<<j, peer_addresses[k]>>]]_vars

\* Overrides for PeerAddressA were received on both interfaces from different
\* addresses, and the call for wlan0 has returned the address observed on wlan0.
C13_Witness ==
    /\ peer_addresses = <<PeerAddressA, PeerAddressB>>
    /\ <<"eth0", PeerAddressA>> \in DOMAIN address_overrides
    /\ <<"wlan0", PeerAddressA>> \in DOMAIN address_overrides
    /\ address_overrides[<<"eth0", PeerAddressA>>] = PeerAddressA
    /\ address_overrides[<<"wlan0", PeerAddressA>>] = NatAddress
    /\ routing_call.outbound_interface_name = "wlan0"
    /\ routing_call.resolved_addresses = <<NatAddress, PeerAddressB>>

\* C29: a resolve_peer_addresses call returns the result of a complete routing state.
\* When it runs between the two updates of handle_mapping_response (peer list
\* replaced, overrides not yet pruned), its result is the result on the state after
\* the update: the new peer list with the overrides that survive the pruning;
\* otherwise it is the result on the peer list and the overrides as they are.
C29_ResolveSeesSnapshot ==
    [][(routing_call = NoResolve /\ routing_call' # NoResolve) =>
          LET complete_peers == IF mapping_pc.pruning THEN mapping_pc.endpoints
                                ELSE peer_addresses
              surviving == IF mapping_pc.pruning
                           THEN {key \in DOMAIN address_overrides :
                                    key[2] \in Range(mapping_pc.endpoints)}
                           ELSE DOMAIN address_overrides
              complete_overrides == [key \in surviving |-> address_overrides[key]]
          IN routing_call'.resolved_addresses =
                 [k \in 1..Len(complete_peers) |->
                     OverrideOr(complete_overrides, routing_call'.outbound_interface_name,
                                complete_peers[k])]]_vars

\* A call for eth0 has returned between the two updates, while the map still holds an
\* entry of eth0 that the pruning removes, and one of its addresses is overridden.
C29_Witness ==
    /\ mapping_pc.pruning
    /\ routing_call.outbound_interface_name = "eth0"
    /\ Len(routing_call.resolved_addresses) = Len(peer_addresses)
    /\ \E k \in 1..Len(peer_addresses) : routing_call.resolved_addresses[k] # peer_addresses[k]
    /\ \E key \in DOMAIN address_overrides :
          key[1] = "eth0" /\ key[2] \notin Range(mapping_pc.endpoints)

\* ------------------------------------------------------------------------
\* Properties of the rx processor
\* ------------------------------------------------------------------------
\* The datagram of `payload` starts with a WireMessage that `cipher` decrypts and that
\* carries the message id of type T.
Opens(payload, cipher, T) ==
    LET parsed == from_slice(payload.data)
        decrypted == decrypt(parsed.value, cipher)
    IN /\ parsed.ok
       /\ decrypted.ok
       /\ TypeOfId(decrypted.value.message_id) = T
       /\ decode(decrypted.value, T).ok

\* C20: the rx processor decrypts a datagram with the rendezvous cipher exactly when
\* its source address is the configured rendezvous address, and with the peer cipher
\* otherwise: an external address or the peer list only changes for a datagram from
\* the rendezvous address that the rendezvous cipher opens as RegisterResponse or
\* MappingResponse; a payload only reaches a gate, and an override entry is only
\* written, for a datagram from another address that the peer cipher opens as
\* TunnelPayload or PeerAddressOverride.
C20_CipherBySource ==
    [][LET from_warp_map == Head(rx).from = warp_map_address
           written == {key \in DOMAIN address_overrides' :
                          \/ key \notin DOMAIN address_overrides
                          \/ address_overrides'[key] # address_overrides[key]}
           delivered == {t \in Tunnels : Len(application_inbound_channel'[t])
                                             > Len(application_inbound_channel[t])}
           changed == {name \in DOMAIN external_address :
                          \/ external_address'[name].some # external_address[name].some
                          \/ /\ external_address[name].some
                             /\ external_address'[name].value # external_address[name].value}
       IN /\ (changed # {}) =>
                 /\ rx # << >> /\ from_warp_map
                 /\ Opens(Head(rx), warp_map_cipher, "RegisterResponse")
          /\ (peer_addresses' # peer_addresses) =>
                 /\ rx # << >> /\ from_warp_map
                 /\ Opens(Head(rx), warp_map_cipher, "MappingResponse")
          /\ (written # {}) =>
                 /\ rx # << >> /\ ~from_warp_map
                 /\ Opens(Head(rx), peer_cipher, "PeerAddressOverride")
          /\ (delivered # {}) =>
                 /\ rx # << >> /\ ~from_warp_map
                 /\ Opens(Head(rx), peer_cipher, "TunnelPayload")
          /\ (rx_current.outcome # "none" /\ rx_current'.outcome = "none") =>
                 LET outcome == rx_current.outcome
                 IN /\ outcome \in {"RegisterResponse", "MappingResponse"} =>
                           from_warp_map /\ Opens(Head(rx), warp_map_cipher, outcome)
                    /\ outcome \in {"TunnelPayload", "PeerAddressOverride"} =>
                           ~from_warp_map /\ Opens(Head(rx), peer_cipher, outcome)
                    /\ outcome = "invalid" =>
                           ~from_warp_map /\ ~decrypt(from_slice(Head(rx).data).value, peer_cipher).ok]_vars

\* The four effects have happened: eth0 has an external address, the peer list is set,
\* an override is in the map and a payload waits in the channel of a gate.
C20_Witness ==
    /\ external_address["eth0"].some
    /\ peer_addresses # << >>
    /\ DOMAIN address_overrides # {}
    /\ \E t \in Tunnels : application_inbound_channel[t] # << >>

\* C21: a message from another address than the rendezvous that the peer cipher does
\* not decrypt is discarded: the routing state, the external addresses and the
\* channels of the gates stay as they are, the rx processor keeps running, and it
\* goes on with the rest of the datagram, or with the next datagram when nothing is
\* left of this one.
C21_PeerDecryptFailureTolerated ==
    [][(/\ rx # << >>
        /\ rx_current.outcome # "none"
        /\ rx_current'.outcome = "none" \/ rx_task' # rx_task
        /\ Head(rx).from # warp_map_address
        /\ from_slice(Head(rx).data).ok
        /\ ~decrypt(from_slice(Head(rx).data).value, peer_cipher).ok)
       => LET rest == from_slice(Head(rx).data).rest
          IN /\ rx_task' = "running"
             /\ interfaces' = interfaces
             /\ peer_addresses' = peer_addresses
             /\ address_overrides' = address_overrides
             /\ external_address' = external_address
             /\ application_inbound_channel' = application_inbound_channel
             /\ rx' = IF rest = << >> THEN Tail(rx)
                      ELSE <<[Head(rx) EXCEPT !.data = rest]>> \o Tail(rx)]_vars

\* The first message of a datagram of a peer has been discarded and the second one,
\* which the peer cipher does not decrypt either, is next. (The only datagram of
\* RxSamples with two messages that comes from a peer is under the rendezvous cipher.)
C21_Witness ==
    /\ rx_task = "running"
    /\ rx # << >>
    /\ rx_current.outcome = "none"
    /\ Head(rx).from # warp_map_address
    /\ Head(rx) \notin RxSamples
    /\ from_slice(Head(rx).data).ok
    /\ ~decrypt(from_slice(Head(rx).data).value, peer_cipher).ok

\* C22: a message from the rendezvous address that the rendezvous cipher does not
\* decrypt is not fatal: the rx processor is still running after it.
C22_RendezvousDecryptFailureNotFatal ==
    [][(/\ rx_task = "running"
        /\ rx # << >>
        /\ Head(rx).from = warp_map_address
        /\ from_slice(Head(rx).data).ok
        /\ ~decrypt(from_slice(Head(rx).data).value, warp_map_cipher).ok)
       => rx_task' = "running"]_vars

\* C23: a TunnelPayload the peer cipher opens goes to the back of the inbound channel
\* of the gate with its tunnel_id and to no other gate; when no gate has the
\* tunnel_id, no channel changes.
C23_DispatchByTunnelId ==
    [][(/\ rx # << >>
        /\ rx_current.outcome # "none"
        /\ rx_current'.outcome = "none"
        /\ Head(rx).from # warp_map_address
        /\ Opens(Head(rx), peer_cipher, "TunnelPayload"))
       => LET tunnel_payload ==
                  decode(decrypt(from_slice(Head(rx).data).value, peer_cipher).value,
                         "TunnelPayload").value
          IN \A gate \in Tunnels :
                 application_inbound_channel'[gate] =
                     IF gate = tunnel_payload.tunnel_id
                     THEN application_inbound_channel[gate] \o <<tunnel_payload>>
                     ELSE application_inbound_channel[gate]]_vars

\* A payload of tunnel 5 waits in the channel of its gate and the gate of tunnel 6 has
\* received nothing.
C23_Witness ==
    /\ application_inbound_channel[TunnelIdId(5)] # << >>
    /\ application_inbound_channel[TunnelIdId(5)][1].tunnel_id = TunnelIdId(5)
    /\ application_inbound_channel[TunnelIdId(6)] = << >>
    /\ ~application_socket[TunnelIdId(6)].some

\* ------------------------------------------------------------------------
\* Properties of the NetworkInterface objects
\* ------------------------------------------------------------------------
\* The sender task of the k-th interface takes an entry from its queue in this step.
Dequeued(k) ==
    Len(network_interfaces'[k].sender_queue) < Len(network_interfaces[k].sender_queue)

\* C14: for every entry the sender task of an interface takes from its queue exactly
\* one of these happens: its deadline is past, it is dropped and consecutive_failures
\* is unchanged; all its bytes are sent and consecutive_failures becomes 0; the send is
\* partial, fails or times out and consecutive_failures grows by exactly 1. is_alive()
\* is true exactly when consecutive_failures < max_consecutive_failures.
C14_SenderTaskOutcome ==
    [][\A k \in 1..Len(network_interfaces) :
          Dequeued(k) =>
              LET tx_payload == Head(network_interfaces[k].sender_queue)
                  before == network_interfaces[k].consecutive_failures
                  after == network_interfaces'[k].consecutive_failures
                  past == tx_payload.deadline.some
                              /\ tx_payload.deadline.value < sender_event'.instant
              IN /\ network_interfaces'[k].sender_queue = Tail(network_interfaces[k].sender_queue)
                 /\ past => /\ sender_event'.name = "INTERFACE_SEND_DEADLINE_MISSED"
                            /\ after = before
                 /\ ~past => \/ /\ sender_event'.name = "INTERFACE_SEND"
                                /\ after = 0
                             \/ /\ sender_event'.name \in {"INTERFACE_SEND_INCOMPLETE",
                                                           "INTERFACE_SEND_FAILED",
                                                           "INTERFACE_SEND_TIMEOUT"}
                                /\ after = before + 1
                 /\ is_alive(after) <=> after < max_consecutive_failures
                 /\ \A j \in 1..Len(network_interfaces) :
                        j # k => network_interfaces'[j] = network_interfaces[j]]_vars

\* A sender task has just dropped a payload whose deadline had passed, and an
\* interface has failed more often than max_consecutive_failures.
C14_Witness ==
    /\ sender_event.name = "INTERFACE_SEND_DEADLINE_MISSED"
    /\ \E k \in 1..Len(network_interfaces) :
          network_interfaces[k].consecutive_failures > max_consecutive_failures

\* C15: Dead is terminal: once consecutive_failures of an interface object has reached
\* max_consecutive_failures (is_alive() is false), no later step makes is_alive() true
\* again for that object.
C15_DeadIsTerminal ==
    [][\A k \in 1..Len(network_interfaces) :
          ~is_alive(network_interfaces[k].consecutive_failures)
              => ~is_alive(network_interfaces'[k].consecutive_failures)]_vars

\* C16: when the scan task drops an interface (its id is not enumerated any more, or it
\* is not alive), its three tasks are cancelled: the object takes no further step of
\* its registration task, of its sender task or of its receiver task.
C16_DropCancelsTasks ==
    [][\A k \in 1..Len(network_interfaces) :
          k \notin Range(watch_interfaces)
              => ~(RegistrationTask(k) \/ SenderTask(k) \/ ReceiverTask(k))]_vars

\* C17: after every scan in which no socket creation fails, the published list holds
\* exactly one interface per enumerated id: the interfaces that are not alive or not
\* enumerated any more are removed, the others are kept as the same objects, every
\* enumerated id without such an object gets one new interface, no id occurs twice.
C17_ScanReconciles ==
    [][(watch_version' # watch_version /\ \A name \in DOMAIN datalink : datalink[name] # "unbindable") =>
          LET enumerated == {name \in DOMAIN datalink : datalink[name] = "up"}
              survivors == {k \in Range(watch_interfaces) :
                               /\ network_interfaces[k].consecutive_failures
                                      < max_consecutive_failures
                               /\ network_interfaces[k].id \in enumerated}
              published == Range(watch_interfaces')
          IN /\ {network_interfaces'[k].id : k \in published} = enumerated
             /\ \A i, j \in 1..Len(watch_interfaces') :
                    i # j => network_interfaces'[watch_interfaces'[i]].id
                                 # network_interfaces'[watch_interfaces'[j]].id
             /\ published \cap Range(watch_interfaces) = survivors
             /\ \A k \in 1..Len(network_interfaces) : network_interfaces'[k] = network_interfaces[k]
             /\ \A k \in published \ survivors :
                    /\ k > Len(network_interfaces)
                    /\ network_interfaces'[k].id
                           \notin {network_interfaces[j].id : j \in survivors}
                    /\ network_interfaces'[k].consecutive_failures = 0
                    /\ network_interfaces'[k].sender_queue = << >>]_vars

\* A scan has removed an interface that was not alive and has published a new
\* interface with the same id.
C17_Witness ==
    /\ Len(network_interfaces) = 2
    /\ network_interfaces[1].id = network_interfaces[2].id
    /\ network_interfaces[1].consecutive_failures >= max_consecutive_failures
    /\ watch_interfaces = <<2>>

\* ------------------------------------------------------------------------
\* Properties of the rendezvous server
\* ------------------------------------------------------------------------
\* The type of the first message of buf, as the cipher of one of the clients opens it.
FirstType(buf) ==
    LET parsed == from_slice(buf)
        opening == {key \in 1..2 :
                       decrypt(parsed.value, cipher_from_shared_secret(key)).ok}
    IN IF ~parsed.ok THEN "unparsable"
       ELSE IF opening = {} THEN "sealed"
       ELSE TypeOfId(decrypt(parsed.value,
                             cipher_from_shared_secret(CHOOSE key \in opening : TRUE))
                         .value.message_id)

\* The messages of buf as the cipher of client_key opens them, in wire order; an
\* entry of type "invalid" stands for what does not parse, decrypt or decode.
RECURSIVE OpenAll(_, _)
OpenAll(buf, client_key) ==
    IF buf = << >> THEN << >>
    ELSE LET parsed == from_slice(buf)
             decrypted == decrypt(parsed.value, cipher_from_shared_secret(client_key))
             decoded == decode(decrypted.value, TypeOfId(decrypted.value.message_id))
         IN IF ~parsed.ok THEN <<[type |-> "invalid"]>>
            ELSE IF ~decrypted.ok THEN <<[type |-> "invalid"]>>
            ELSE IF ~decoded.ok THEN <<[type |-> "invalid"]>>
            ELSE <<decoded.value>> \o OpenAll(parsed.rest, client_key)

\* The request task k is about to handle, as the cipher of its client_key opens it.
CurrentRequest(k) ==
    OpenAll(to_bytes(server_tasks[k].msg), server_tasks[k].client_key)[1]

\* Task k handles a message in this step.
Handles(k) == server_tasks[k].pc = "handle" /\ server_tasks'[k].pc # "handle"

\* The responses task k has appended in this step.
Appended(k) ==
    LET before == OpenAll(server_tasks[k].response_bytes, server_tasks[k].client_key)
        after == OpenAll(server_tasks'[k].response_bytes, server_tasks[k].client_key)
    IN SubSeq(after, Len(before) + 1, Len(after))

C25_RegisterRequestAnswered ==
    [][\A k \in DOMAIN server_tasks :
          (Handles(k) /\ CurrentRequest(k).type = "RegisterRequest")
          => /\ get_pubkey(Store', server_tasks[k].from) = server_tasks[k].client_key
             /\ address_last_seen'[server_tasks[k].from] \in Instants
             /\ Len(Appended(k)) = 1
             /\ Appended(k)[1].type = "RegisterResponse"
             /\ Appended(k)[1].address = ClientAddress(server_tasks[k].from)
             /\ Appended(k)[1].request_timestamp = CurrentRequest(k).timestamp
      ]_vars

\* C26: for every MappingRequest the server handles, a MappingResponse is appended to
\* the responses whose endpoints are get_addresses(peer_pubkey, now), and the
\* ClientStore is left as it is.
C26_MappingRequestAnswered ==
    [][\A k \in DOMAIN server_tasks :
          (Handles(k) /\ CurrentRequest(k).type = "MappingRequest")
          => /\ Store' = Store
             /\ Len(Appended(k)) = 1
             /\ Appended(k)[1].type = "MappingResponse"
             /\ \E now \in Instants, order \in IterationOrders(Addresses) :
                   Appended(k)[1].endpoints =
                       LET addresses == get_addresses(Store, CurrentRequest(k).peer_pubkey,
                                                      now, order)
                       IN [i \in 1..Len(addresses) |-> ClientAddress(addresses[i])]
      ]_vars

\* C27: the registration datagram [RegisterRequest, MappingRequest] of a client, alone
\* at a server that does not know its address, is answered with one datagram
\* [RegisterResponse, MappingResponse]: once the task is over, it has sent the two
\* responses in this order.
C27_RegistrationDatagramAnswered ==
    \A key \in 1..2 :
        (/\ Len(server_tasks) = 1
         /\ server_tasks[1].pc \in {"sent", "error"}
         /\ Len(OpenAll(server_tasks[1].buf, key)) = 2
         /\ OpenAll(server_tasks[1].buf, key)[1].type = "RegisterRequest"
         /\ OpenAll(server_tasks[1].buf, key)[1].pubkey = key
         /\ OpenAll(server_tasks[1].buf, key)[2].type = "MappingRequest")
        => /\ server_tasks[1].pc = "sent"
           /\ Len(OpenAll(server_tasks[1].response_bytes, key)) = 2
           /\ OpenAll(server_tasks[1].response_bytes, key)[1].type = "RegisterResponse"
           /\ OpenAll(server_tasks[1].response_bytes, key)[2].type = "MappingResponse"

\* C28: when a message of a datagram does not parse, decrypt or decode, the datagram
\* is dropped: once the task of the only datagram the server has received is over, no
\* response is sent and the ClientStore is as it was before, that is empty.
C28_FailedDatagramDropped ==
    (/\ Len(server_tasks) = 1
     /\ server_tasks[1].pc \in {"sent", "error"}
     /\ \A key \in 1..2 :
           \E i \in DOMAIN OpenAll(server_tasks[1].buf, key) :
               OpenAll(server_tasks[1].buf, key)[i].type = "invalid")
    => /\ server_tasks[1].pc = "error"
       /\ DOMAIN address_to_pubkey = {}
       /\ DOMAIN address_last_seen = {}
       /\ DOMAIN pubkey_to_addresses = {}

\* ------------------------------------------------------------------------
\* Properties of WarpCore::run
\* ------------------------------------------------------------------------
\* The entries of the sender queue of the k-th interface that are a DeregisterRequest
\* for the rendezvous.
Deregistrations(objects, k) ==
    {n \in DOMAIN objects[k].sender_queue :
        Opens(objects[k].sender_queue[n], warp_map_cipher, "DeregisterRequest")}

\* C30: the step that takes the shutdown signal appends exactly one DeregisterRequest,
\* addressed to the rendezvous and without deadline, to the sender queue of every
\* interface of the published list and to no other queue; run then returns without
\* queueing anything; and every other step that changes a sender queue, before the
\* shutdown or after it, takes the head of the queue or appends an entry that is not
\* a DeregisterRequest.
C30_ShutdownDeregisters ==
    [][/\ (run_pc = "select" /\ run_pc' # "select") =>
             /\ run_pc' = "shutdown"
             /\ \A k \in DOMAIN network_interfaces :
                   LET queue == network_interfaces[k].sender_queue
                       after == network_interfaces'[k].sender_queue
                   IN IF k \in Range(watch_interfaces)
                      THEN /\ Len(after) = Len(queue) + 1
                           /\ SubSeq(after, 1, Len(queue)) = queue
                           /\ after[Len(after)].to = warp_map_address
                           /\ ~after[Len(after)].deadline.some
                           /\ Deregistrations(network_interfaces', k) = {Len(after)}
                      ELSE after = queue
       /\ (run_pc = "shutdown" /\ run_pc' # "shutdown") =>
             /\ run_pc' = "returned"
             /\ network_interfaces' = network_interfaces
       /\ \A k \in DOMAIN network_interfaces' :
             LET after == network_interfaces'[k].sender_queue
                 queue == IF k \in DOMAIN network_interfaces
                          THEN network_interfaces[k].sender_queue ELSE << >>
             IN (run_pc' = run_pc /\ after # queue) =>
                    \/ queue # << >> /\ after = Tail(queue)
                    \/ /\ Len(after) = Len(queue) + 1
                       /\ SubSeq(after, 1, Len(queue)) = queue
                       /\ ~Opens(after[Len(after)], warp_map_cipher, "DeregisterRequest")
      ]_vars

\* run has returned after a shutdown with two published interfaces, one of them no
\* longer alive; the DeregisterRequest is the last entry of both queues.
C30_Witness ==
    /\ run_pc = "returned"
    /\ Len(watch_interfaces) = 2
    /\ \A k \in Range(watch_interfaces) :
          Len(network_interfaces[k].sender_queue) \in Deregistrations(network_interfaces, k)
    /\ \E k \in Range(watch_interfaces) :
          ~is_alive(network_interfaces[k].consecutive_failures)

\* ------------------------------------------------------------------------
\* Properties of the ClientStore: re-registration, expiry, empty entries
\* ------------------------------------------------------------------------
\* C33: register_client(p, a, now) called when a is registered to p leaves
\* pubkey_to_addresses and address_to_pubkey as they are, sets the last_seen of a to
\* now, and leaves the last_seen of every other address and client_expiry as they are.
C33_ReRegisterIsTimestampUpdate ==
    [][(/\ op = NoCall
        /\ op'.name = "register_client"
        /\ op'.address \in DOMAIN address_to_pubkey
        /\ address_to_pubkey[op'.address] = op'.pubkey)
       => /\ pubkey_to_addresses' = pubkey_to_addresses
          /\ address_to_pubkey' = address_to_pubkey
          /\ client_expiry' = client_expiry
          /\ DOMAIN address_last_seen' = DOMAIN address_last_seen
          /\ \A a \in DOMAIN address_last_seen :
                address_last_seen'[a] = IF a = op'.address THEN op'.now ELSE address_last_seen[a]]_vars

\* An address has been registered again under its pubkey, with a timestamp that
\* differs from the one of another address of the same pubkey.
C33_Witness ==
    /\ op.name = "register_client"
    /\ op.old_pubkey = op.pubkey
    /\ \E a \in pubkey_to_addresses[op.pubkey] :
          a # op.address /\ address_last_seen[a] # address_last_seen[op.address]

\* The addresses get_addresses(pubkey, now) returns for the store `self`.
FreshAddressesOf(self, pubkey, now) ==
    Range(get_addresses(self, pubkey, now,
                        CHOOSE order \in IterationOrders(
                                   IF pubkey \in DOMAIN self.pubkey_to_addresses
                                   THEN self.pubkey_to_addresses[pubkey] ELSE {}) : TRUE))

\* C34: garbage_collect(t) evicts exactly the addresses that no get_addresses at time t
\* returns, and for every pubkey get_addresses(p, t) returns the same addresses on the
\* store before and on the store after the collection.
C34_ExpiryPredicatesComplementary ==
    [][(op = NoCall /\ op'.name = "garbage_collect")
       => /\ DOMAIN address_last_seen \ DOMAIN address_last_seen' =
                {a \in DOMAIN address_last_seen :
                    \A p \in Pubkeys : a \notin FreshAddressesOf(Store, p, op'.now)}
          /\ \A p \in Pubkeys :
                FreshAddressesOf(Store', p, op'.now) = FreshAddressesOf(Store, p, op'.now)]_vars

\* A collection has evicted an address and kept another one, which get_addresses
\* returns at the time of the collection.
C34_Witness ==
    /\ op.name = "garbage_collect"
    /\ op.expired_addresses > 0
    /\ \E p \in Pubkeys : FreshAddressesOf(Store, p, op.now) # {}

\* C35: no pubkey of pubkey_to_addresses maps to an empty set of addresses.
C35_NoEmptyPubkeyEntry ==
    \A p \in DOMAIN pubkey_to_addresses : pubkey_to_addresses[p] # {}

\* A collection has removed the entry of a pubkey whose last address expired, while
\* another pubkey keeps an address.
C35_Witness ==
    /\ op.name = "garbage_collect"
    /\ op.expired_pubkeys > 0
    /\ DOMAIN pubkey_to_addresses # {}

\* C36: while less than client_expiry has passed on the server's clock since the server
\* processed the last RegisterRequest of address a, for pubkey p, a garbage_collect
\* run does not evict a and a get_addresses(p, now) returns a.
C36_RegistrationKeepsFresh ==
    [][\A a \in Addresses :
          (/\ last_register[a].some
           /\ server_clock - last_register[a].value.at < client_expiry
           /\ op = NoCall)
          => /\ op'.name = "garbage_collect" =>
                   /\ a \in DOMAIN address_last_seen'
                   /\ a \in DOMAIN address_to_pubkey'
                   /\ address_to_pubkey'[a] = last_register[a].value.pubkey
                   /\ a \in pubkey_to_addresses'[last_register[a].value.pubkey]
             /\ (op'.name = "get_addresses" /\ op'.pubkey = last_register[a].value.pubkey) =>
                   a \in Range(op'.addresses)]_vars

\* The address was registered at time 0 and again at time 1, and a collection at
\* time 1 has evicted another address and kept this one.
C36_Witness ==
    /\ op.name = "garbage_collect"
    /\ op.now = 1
    /\ op.expired_addresses > 0
    /\ \E a \in DOMAIN address_last_seen :
          /\ last_register[a].some
          /\ last_register[a].value.at = 1
          /\ address_last_seen[a] = 1

\* ------------------------------------------------------------------------
\* Properties of the external addresses
\* ------------------------------------------------------------------------
\* C31: at first no interface has an external address. The step that handles a
\* RegisterResponse of the rendezvous received on the interface named X sets the
\* external address of X, when X is in the published list, to the address of the
\* response and leaves every other external address as it is; and no other step gives
\* an interface an external address or changes one (a scan that replaces or removes
\* an interface leaves the new one without external address).
C31_ExternalAddressOfReceiver ==
    /\ \A name \in DOMAIN external_address : ~external_address[name].some
    /\ [][IF /\ rx # << >>
             /\ rx_current.outcome # "none"
             /\ rx_current'.outcome = "none"
             /\ Head(rx).from = warp_map_address
             /\ Opens(Head(rx), warp_map_cipher, "RegisterResponse")
          THEN LET wire == from_slice(Head(rx).data).value
                   response == decode(decrypt(wire, warp_map_cipher).value, "RegisterResponse").value
                   X == Head(rx).receiver_name
               IN \A name \in DOMAIN external_address :
                     IF name = X /\ X \in Range(interfaces)
                     THEN /\ external_address'[name].some
                          /\ external_address'[name].value = response.address
                     ELSE /\ external_address'[name].some = external_address[name].some
                          /\ external_address[name].some =>
                                 external_address'[name].value = external_address[name].value
          ELSE \A name \in DOMAIN external_address :
                  \/ ~external_address'[name].some
                  \/ /\ external_address[name].some
                     /\ external_address'[name].value = external_address[name].value]_vars

\* Both interfaces are in the list; eth0 got an address, then wlan0 another one, and a
\* later response has changed the address of eth0 while wlan0 kept its own.
C31_Witness ==
    /\ Range(interfaces) = {"eth0", "wlan0"}
    /\ external_address["eth0"].some /\ external_address["eth0"].value = PeerAddressB
    /\ external_address["wlan0"].some /\ external_address["wlan0"].value = NatAddress

\* ------------------------------------------------------------------------
\* Properties of the loopback sockets of the gates
\* ------------------------------------------------------------------------
\* The optional value `after` differs from `before`.
OptionChanged(before, after) ==
    \/ before.some # after.some
    \/ before.some /\ before.value # after.value

\* C32: no step changes the fixed destination of a gate. When the sender task of a gate
\* takes a payload from the inbound channel, a gate with a fixed destination sends it
\* there; a gate without one sends it to the source address of the datagram its socket
\* received last, and when it has received none nothing is sent and the payload is
\* gone from the channel.
C32_LoopbackDestination ==
    [][/\ fixed_destination' = fixed_destination
       /\ \A t \in Tunnels :
             Len(application_inbound_channel'[t]) < Len(application_inbound_channel[t]) =>
                LET sent == \/ OptionChanged(application_socket[t], application_socket'[t])
                            \/ OptionChanged(application_destination[t], application_destination'[t])
                IN /\ application_inbound_channel'[t] = Tail(application_inbound_channel[t])
                   /\ sent => /\ application_socket'[t].some
                              /\ application_socket'[t].value = Head(application_inbound_channel[t])
                              /\ application_destination'[t].some
                   /\ IF fixed_destination[t].some
                      THEN sent => application_destination'[t].value = fixed_destination[t].value
                      ELSE IF application_from[t].some
                      THEN sent => application_destination'[t].value = application_from[t].value
                      ELSE ~sent /\ ~application_destination'[t].some]_vars

\* The gate of tunnel 5 has sent to its fixed destination although its application
\* sends from another port; the gate of tunnel 6 has sent to port 6001 and its socket
\* has since received a datagram from port 6002.
C32_Witness ==
    /\ fixed_destination[TunnelIdId(5)].some
    /\ application_from[TunnelIdId(5)].some
    /\ application_destination[TunnelIdId(5)].some
    /\ application_destination[TunnelIdId(5)].value # application_from[TunnelIdId(5)].value
    /\ ~fixed_destination[TunnelIdId(6)].some
    /\ application_destination[TunnelIdId(6)].some
    /\ application_destination[TunnelIdId(6)].value = LoopbackAddress(6001)
    /\ application_from[TunnelIdId(6)].value = LoopbackAddress(6002)

\* C37: no step of a task of the server changes the pubkey of an address that is
\* registered: an address bound to a pubkey keeps it as long as it is in the store.
C37_BindingStable ==
    [][\A a \in DOMAIN address_to_pubkey :
          a \in DOMAIN address_to_pubkey' => address_to_pubkey'[a] = address_to_pubkey[a]]_vars

\* C38: no step of a task of the server takes an address out of the ClientStore, and
\* the step that handles a DeregisterRequest ends the task with an error, builds no
\* response and leaves the ClientStore as it is.
C38_DeregisterRequestRejected ==
    [][/\ DOMAIN address_last_seen \subseteq DOMAIN address_last_seen'
       /\ DOMAIN address_to_pubkey \subseteq DOMAIN address_to_pubkey'
       /\ \A a \in DOMAIN address_to_pubkey' :
             /\ address_to_pubkey'[a] \in DOMAIN pubkey_to_addresses'
             /\ a \in pubkey_to_addresses'[address_to_pubkey'[a]]
       /\ \A k \in DOMAIN server_tasks :
             (Handles(k) /\ CurrentRequest(k).type = "DeregisterRequest")
             => /\ server_tasks'[k].pc = "error"
                /\ server_tasks'[k].response_bytes = server_tasks[k].response_bytes
                /\ Store' = Store]_vars

\* The DeregisterRequest of a client, sent from the address the store holds for it,
\* has ended its task with an error and the address is still registered.
C38_Witness ==
    \E k \in DOMAIN server_tasks :
        /\ server_tasks[k].pc = "error"
        /\ server_tasks[k].cached
        /\ CurrentRequest(k).type = "DeregisterRequest"
        /\ CurrentRequest(k).pubkey = server_tasks[k].client_key
        /\ get_pubkey(Store, server_tasks[k].from) = server_tasks[k].client_key
        /\ server_tasks[k].from \in pubkey_to_addresses[server_tasks[k].client_key]

C40_NoDatagramStopsRxProcessor ==
    [][rx_task = "running" => rx_task' = "running"]_vars

\* ------------------------------------------------------------------------
\* Properties of the gates

\* C18: the tunnel payloads in the outbound channel of the process carry strictly
\* increasing tracers in the order they entered it, whichever gates they come from,
\* so no two of them share a tracer.
C18_TracersStrictlyIncreasing ==
    \A i, j \in DOMAIN outbound_tunnel_payloads :
        i < j => outbound_tunnel_payloads[i].tunnel_payload.tracer
                     < outbound_tunnel_payloads[j].tunnel_payload.tracer

\* C19: each gate is FIFO in both directions. A datagram the listener of a gate
\* receives goes to the back of the outbound channel with the next tracer of the gate,
\* so the payloads of one gate stand there in receive order; a payload dispatched to
\* a gate goes to the back of its inbound channel; the sender task takes the payload
\* at the front, writes that one or nothing to the application socket, and the socket
\* sees nothing but what the sender task takes.
C19_GateFifo ==
    [][\A tunnel_id \in Tunnels :
          LET inbound == application_inbound_channel[tunnel_id]
              inbound_after == application_inbound_channel'[tunnel_id]
              written == application_socket[tunnel_id]
              written_after == application_socket'[tunnel_id]
              taken == Len(inbound_after) < Len(inbound)
              writes == /\ written_after.some
                        /\ (written.some => written_after.value # written.value)
          IN /\ tracer_generator'[tunnel_id] # tracer_generator[tunnel_id] =>
                    /\ Len(outbound_tunnel_payloads') = Len(outbound_tunnel_payloads) + 1
                    /\ SubSeq(outbound_tunnel_payloads', 1, Len(outbound_tunnel_payloads))
                           = outbound_tunnel_payloads
                    /\ LET entered == outbound_tunnel_payloads'[Len(outbound_tunnel_payloads')]
                       IN /\ entered.tunnel_payload.tunnel_id = tunnel_id
                          /\ entered.tunnel_payload.tracer = tracer_generator[tunnel_id]
             /\ \A i, j \in DOMAIN outbound_tunnel_payloads' :
                    (/\ i < j
                     /\ outbound_tunnel_payloads'[i].tunnel_payload.tunnel_id = tunnel_id
                     /\ outbound_tunnel_payloads'[j].tunnel_payload.tunnel_id = tunnel_id)
                    => outbound_tunnel_payloads'[i].tunnel_payload.tracer
                           < outbound_tunnel_payloads'[j].tunnel_payload.tracer
             /\ Len(inbound_after) > Len(inbound) =>
                    /\ rx_current.outcome = "TunnelPayload"
                    /\ inbound_after = inbound \o <<rx_current.message>>
             /\ taken => inbound_after = SubSeq(inbound, 2, Len(inbound))
             /\ writes => taken /\ written_after.value = inbound[1]
             /\ ~taken => written_after.some = written.some
      ]_vars

\* Both directions have carried two payloads of the gate of tunnel 5: two of its
\* datagrams stand in the outbound channel, one dispatched payload has been written
\* to the application socket and the next one waits in the inbound channel.
C19_Witness ==
    /\ tracer_generator[TunnelIdId(5)] = 2
    /\ tracer_generator[TunnelIdId(6)] >= 1
    /\ application_socket[TunnelIdId(5)].some
    /\ application_inbound_channel[TunnelIdId(5)] # << >>
    /\ application_socket[TunnelIdId(5)].value.tracer
           # application_inbound_channel[TunnelIdId(5)][1].tracer

====
